---- MODULE Spec2Model ----
(***************************************************************************)
(* Model of the kv-pair IR stream deserializer with query evaluation and   *)
(* projection resolution (clp::ffi::ir_stream::Deserializer) and of the    *)
(* search helpers it calls (ir_search_methods).                            *)
(*                                                                         *)
(* One step of the model is one call of deserialize_next_ir_unit.  The     *)
(* unit that the reader and the wire decoder deliver is the input of the   *)
(* step; the handler's answer to each callback is an input as well.        *)
(***************************************************************************)
EXTENDS Integers, Sequences, FiniteSets, TLC

\* ------------------------------------------------------------------ bounds
\* Largest number of nodes a stream inserts, both schema trees together.
MaxNodes == 4
\* Largest number of node-id/value pairs of one log event, both namespaces
\* together.
MaxPairs == 2
\* The longest projection path given to create.
MaxPathLen == 3
\* The most projection paths given to create.
MaxProjection == 2
\* The most input paths given to the compress task.
MaxInputPaths == 2
\* The most records of a serialized record array.
MaxRecords == 3
\* The most tokens of a list a column descriptor is built from.
MaxTokens == 4
\* The most units of a counted stream before its end.
MaxUnits == 2
\* The most calls of deserialize_next_ir_unit on a counted stream.
MaxCalls == MaxUnits + 2
\* The largest capacity of a BufferedSocketWriter's buffer.
MaxCapacity == 2
\* The most bytes of one write.
MaxWriteSize == 5
\* The most bytes written to one BufferedSocketWriter.
MaxWritten == 6

\* ------------------------------------------------------------ input alphabet
\* Schema tree node types on the stream.
NodeTypes == {"Obj", "Int", "Str"}
\* The keys a stream inserts: <<is_auto_generated, key name, type>>.
StreamKeys ==
    {<<FALSE, "a", "Obj">>, <<FALSE, "b", "Obj">>, <<FALSE, "b", "Int">>,
     <<FALSE, "b", "Str">>, <<TRUE, "b", "Int">>}
\* UTC offsets on the stream.
UtcOffsets == {0, 1}
\* Which callback of a call the handler fails (0: none).
FailAt == {0, 1, 2}
\* The IRErrorCode values a failing callback returns.
HandlerErrorCodes == {"IRErrorCode_Corrupted_IR", "IRErrorCode_Eof"}

\* SchemaTree::cRootId
cRootId == 0

\* clp_s::search::ast::LiteralType
LiteralTypes ==
    {"IntegerT", "FloatT", "BooleanT", "VarStringT", "ClpStringT", "ArrayT",
     "NullT", "EpochDateT", "UnknownT"}

\* clp_s::search::ast::cAllTypes: every literal type but UnknownT.
cAllTypes == LiteralTypes \ {"UnknownT"}

\* EvaluatedValue
EvaluatedValues == {"True", "False", "Prune"}

\* ------------------------------------------------------------------ strings
\* A string is a tuple of one-character strings.
Lower(c) == IF c = "H" THEN "h" ELSE c

\* clp::string_utils::wildcard_match_unsafe(tame, wild, case_sensitive):
\* '*' matches any run of characters, '?' any one character.
RECURSIVE wildcard_match_unsafe(_, _, _)
wildcard_match_unsafe(tame, wild, case_sensitive) ==
    IF wild = <<>> THEN tame = <<>>
    ELSE IF Head(wild) = "*"
         THEN \/ wildcard_match_unsafe(tame, Tail(wild), case_sensitive)
              \/ /\ tame # <<>>
                 /\ wildcard_match_unsafe(Tail(tame), wild, case_sensitive)
    ELSE /\ tame # <<>>
         /\ \/ Head(wild) = "?"
            \/ IF case_sensitive THEN Head(wild) = Head(tame)
               ELSE Lower(Head(wild)) = Lower(Head(tame))
         /\ wildcard_match_unsafe(Tail(tame), Tail(wild), case_sensitive)

\* ------------------------------------------------------------------- values
\* clp::ffi::Value.  An encoded text AST keeps a logtype with one placeholder
\* character per variable and the dictionary variables in order.
IntValue(i) == [t |-> "Int", i |-> i]
FloatValue(i) == [t |-> "Float", i |-> i]
BoolValue(b) == [t |-> "Bool", b |-> b]
StrValue(s) == [t |-> "Str", s |-> s]
EncValue(width, logtype, dict_vars) ==
    [t |-> "Enc", width |-> width, logtype |-> logtype, dict_vars |-> dict_vars]
NullValue == [t |-> "Null"]
\* std::nullopt: the value of an empty object.
NoValue == [t |-> "None"]

cDictVarPlaceholder == "#"

\* EncodedTextAst::decode_and_unparse: the logtype with every placeholder
\* replaced by the next dictionary variable.
RECURSIVE decode_and_unparse_rec(_, _)
decode_and_unparse_rec(logtype, dict_vars) ==
    IF logtype = <<>> THEN <<>>
    ELSE IF Head(logtype) = cDictVarPlaceholder /\ dict_vars # <<>>
         THEN Head(dict_vars) \o decode_and_unparse_rec(Tail(logtype), Tail(dict_vars))
    ELSE <<Head(logtype)>> \o decode_and_unparse_rec(Tail(logtype), dict_vars)

decode_and_unparse(value) == decode_and_unparse_rec(value.logtype, value.dict_vars)

\* The values a log event can carry at a node of the given type.
ValuesOfType(type) ==
    CASE type = "Int" -> {IntValue(1), IntValue(2)}
      [] type = "Str" -> {StrValue(<<"h">>), StrValue(<<"w">>),
                          EncValue(8, <<"h", " ", "#">>, <<(<<"w">>)>>)}
      [] type = "Obj" -> {NullValue}
      [] OTHER -> {}

\* ----------------------------------------------------------------- literals
\* clp_s::search::ast::Literal: an integral literal or a string literal.
IntLiteral(i) == [lt |-> "Integral", i |-> i]
StrLiteral(s) == [lt |-> "String", s |-> s]
BoolLiteral(b) == [lt |-> "Boolean", b |-> b]

\* Literal::as_int, as_var_string, as_clp_string: whether the operand can be
\* read as the type.
as_int(operand) == operand.lt = "Integral"
as_float(operand) == operand.lt = "Integral"
as_bool(operand) == operand.lt = "Boolean"
as_var_string(operand) == operand.lt = "String"
as_clp_string(operand) == operand.lt = "String"

\* ------------------------------------------------------------------ columns
\* clp_s::search::ast::ColumnDescriptor.  A column is known by its identity
\* (the shared pointer); ColumnTable gives the descriptor of each identity:
\* its namespace, its tokens ("*" is the wildcard token), the literal types it
\* may match (m_flags) and the pure-wildcard flag.
Column(is_auto, tokens, flags, pure) ==
    [is_auto |-> is_auto, tokens |-> tokens, flags |-> flags, pure |-> pure]

cNumeric == {"IntegerT", "FloatT"}

\* ColumnDescriptor::simplify_descriptor_wildcards: a wildcard token that
\* follows a wildcard token is dropped.
RECURSIVE simplify_descriptor_wildcards(_)
simplify_descriptor_wildcards(descriptors) ==
    IF Len(descriptors) <= 1 THEN descriptors
    ELSE IF descriptors[1] = "*" /\ descriptors[2] = "*"
    THEN simplify_descriptor_wildcards(Tail(descriptors))
    ELSE <<descriptors[1]>> \o simplify_descriptor_wildcards(Tail(descriptors))

\* ColumnDescriptor::ColumnDescriptor(DescriptorList const&): the flags are
\* set from the tokens as given, then the wildcards are simplified.
ColumnDescriptor(is_auto, descriptors, flags) ==
    LET m_pure_wildcard == Len(descriptors) = 1 /\ descriptors[1] = "*"
        m_unresolved_descriptors ==
            \E k \in 1..Len(descriptors) : descriptors[k] = "*"
    IN  Column(is_auto,
               IF m_unresolved_descriptors
               THEN simplify_descriptor_wildcards(descriptors)
               ELSE descriptors,
               flags, m_pure_wildcard)

ColumnTable ==
    [c \in {"ab", "awb", "wawb", "sab", "cb", "w", "wn", "aw", "xb", "ww", "p_ab", "p_a", "p_xb"} |->
        CASE c = "ab"   -> Column(FALSE, <<"a", "b">>, cNumeric, FALSE)
          [] c = "awb"  -> Column(FALSE, <<"a", "*", "b">>, cNumeric, FALSE)
          [] c = "wawb" -> Column(FALSE, <<"*", "a", "*", "b">>, cNumeric, FALSE)
          [] c = "sab"  -> Column(FALSE, <<"a", "b">>, {"VarStringT"}, FALSE)
          [] c = "cb"   -> Column(FALSE, <<"b">>, cNumeric, FALSE)
          [] c = "w"    -> Column(FALSE, <<"*">>, {"VarStringT"}, TRUE)
          [] c = "wn"   -> Column(FALSE, <<"*">>, cNumeric, TRUE)
          [] c = "aw"   -> Column(FALSE, <<"a", "*">>, cNumeric, FALSE)
          [] c = "xb"   -> Column(TRUE, <<"b">>, cNumeric, FALSE)
          [] c = "ww"   -> ColumnDescriptor(FALSE, <<"*", "*">>, cNumeric)
          [] c = "p_ab" -> Column(FALSE, <<"a", "b">>, cAllTypes, FALSE)
          [] c = "p_a"  -> Column(FALSE, <<"a">>, cAllTypes, FALSE)
          [] c = "p_xb" -> Column(TRUE, <<"b">>, cAllTypes, FALSE)]

ColumnIds == DOMAIN ColumnTable

get_descriptor_list(col) == ColumnTable[col].tokens
descriptor_begin(col) == 1
descriptor_end(col) == Len(ColumnTable[col].tokens) + 1
\* DescriptorToken::wildcard of the token at a cursor.
wildcard(col, cursor) == ColumnTable[col].tokens[cursor] = "*"
get_token(col, cursor) == ColumnTable[col].tokens[cursor]
is_pure_wildcard(col) == ColumnTable[col].pure
\* clp_s::constants::cAutogenNamespace == col->get_namespace()
is_autogen_namespace(col) == ColumnTable[col].is_auto
\* ColumnDescriptor::matches_any / matches_type
matches_any(col, mask) == ColumnTable[col].flags \cap mask # {}
matches_type(col, literal_type) == literal_type \in ColumnTable[col].flags

\* The text a projected column was created from.
OriginalKey(col) ==
    CASE col = "p_ab" -> "a.b"
      [] col = "p_a"  -> "a"
      [] col = "p_xb" -> "@b"
      [] OTHER -> ""

\* -------------------------------------------------------------- expressions
\* clp_s::search::ast::Expression
FilterExpr(col, op, operand, inverted) ==
    [type |-> "Filter", col |-> col, op |-> op, operand |-> operand,
     inverted |-> inverted]
AndExpr(ops, inverted) == [type |-> "And", ops |-> ops, inverted |-> inverted]
OrExpr(ops, inverted) == [type |-> "Or", ops |-> ops, inverted |-> inverted]
\* A null query pointer.
NullExpr == [type |-> "Null"]

FilterOperations == {"EQ", "NEQ", "LT", "GT", "LTE", "GTE", "EXISTS", "NEXISTS"}

\* ------------------------------------------------------- ir_search_methods
\* node_to_literal_types: every literal type a node of the type can match.
node_to_literal_types(node_type) ==
    CASE node_type \in {"Int", "Float"} -> {"IntegerT", "FloatT"}
      [] node_type = "Bool" -> {"BooleanT"}
      [] node_type = "Str" -> {"ClpStringT", "VarStringT"}
      [] node_type = "UnstructuredArray" -> {"ArrayT"}
      [] node_type = "Obj" -> {"NullT"}
      [] OTHER -> {"UnknownT"}

\* node_and_value_to_literal_type: the literal type of a node type and value.
node_and_value_to_literal_type(node_type, value) ==
    CASE node_type = "Int" -> "IntegerT"
      [] node_type = "Float" -> "FloatT"
      [] node_type = "Bool" -> "BooleanT"
      [] node_type = "UnstructuredArray" -> "ArrayT"
      [] node_type = "Str" -> IF value.t = "Str" THEN "VarStringT" ELSE "ClpStringT"
      [] node_type = "Obj" -> IF value.t = "Null" THEN "NullT" ELSE "UnknownT"
      [] OTHER -> "UnknownT"

\* Variant of evaluate_int_filter: an operand that is no integer differs from
\* every value.
evaluate_int_filter_neq_unreadable(op, operand, value) ==
    IF ~as_int(operand) THEN op = "NEQ"
    ELSE CASE op = "EQ"  -> value.i = operand.i
           [] op = "NEQ" -> value.i # operand.i
           [] op = "LT"  -> value.i < operand.i
           [] op = "GT"  -> value.i > operand.i
           [] op = "LTE" -> value.i <= operand.i
           [] op = "GTE" -> value.i >= operand.i
           [] OTHER -> FALSE

evaluate_int_filter(op, operand, value) ==
    IF ~as_int(operand) THEN FALSE
    ELSE CASE op = "EQ"  -> value.i = operand.i
           [] op = "NEQ" -> value.i # operand.i
           [] op = "LT"  -> value.i < operand.i
           [] op = "GT"  -> value.i > operand.i
           [] op = "LTE" -> value.i <= operand.i
           [] op = "GTE" -> value.i >= operand.i
           [] OTHER -> FALSE

evaluate_float_filter(op, operand, value) ==
    IF ~as_float(operand) THEN FALSE
    ELSE CASE op = "EQ"  -> value.i = operand.i
           [] op = "NEQ" -> value.i # operand.i
           [] op = "LT"  -> value.i < operand.i
           [] op = "GT"  -> value.i > operand.i
           [] op = "LTE" -> value.i <= operand.i
           [] op = "GTE" -> value.i >= operand.i
           [] OTHER -> FALSE

evaluate_bool_filter(op, operand, value) ==
    IF ~as_bool(operand) THEN FALSE
    ELSE CASE op = "EQ"  -> value.b = operand.b
           [] op = "NEQ" -> value.b # operand.b
           [] OTHER -> FALSE

evaluate_var_string_filter(op, operand, value) ==
    IF ~as_var_string(operand) THEN FALSE
    ELSE CASE op = "EQ"  -> wildcard_match_unsafe(value.s, operand.s, FALSE)
           [] op = "NEQ" -> ~wildcard_match_unsafe(value.s, operand.s, FALSE)
           [] OTHER -> FALSE

evaluate_clp_string_filter(op, operand, value) ==
    IF ~as_clp_string(operand) THEN FALSE
    ELSE LET extracted_value == decode_and_unparse(value)
         IN  CASE op = "EQ"  -> wildcard_match_unsafe(extracted_value, operand.s, FALSE)
               [] op = "NEQ" -> ~wildcard_match_unsafe(extracted_value, operand.s, FALSE)
               [] OTHER -> FALSE

\* Variant of evaluate: NEXISTS gives True.
evaluate_filter_value_nexists_true(expr, literal_type, value) ==
    IF expr.op \in {"EXISTS", "NEXISTS"} THEN "True"
    ELSE "False"

\* evaluate(expr, literal_type, value): the filter evaluator.
evaluate_filter_value(expr, literal_type, value) ==
    IF expr.op = "EXISTS" THEN "True"
    ELSE IF expr.op = "NEXISTS" THEN "False"
    ELSE LET rval ==
                 CASE literal_type = "IntegerT" ->
                          evaluate_int_filter(expr.op, expr.operand, value)
                   [] literal_type = "FloatT" ->
                          evaluate_float_filter(expr.op, expr.operand, value)
                   [] literal_type = "BooleanT" ->
                          evaluate_bool_filter(expr.op, expr.operand, value)
                   [] literal_type = "VarStringT" ->
                          evaluate_var_string_filter(expr.op, expr.operand, value)
                   [] literal_type = "ClpStringT" ->
                          evaluate_clp_string_filter(expr.op, expr.operand, value)
                   [] OTHER -> FALSE
         IN  IF rval THEN "True" ELSE "False"

\* evaluate of clp/ffi/ir_stream/ir_search_methods.cpp
core_evaluate(expr, literal_type, value) == "True"

\* -------------------------------------------------------------------- state
VARIABLES
    \* Deserializer members
    m_auto_gen_keys_schema_tree,        \* the nodes, in id order, root first
    m_user_gen_keys_schema_tree,
    m_utc_offset,
    m_is_complete,
    m_query,                            \* the preprocessed query
    m_partial_resolutions,              \* <<node id, is_auto>> -> <<column, cursor>>*
    m_resolutions,                      \* column -> node id*
    m_projected_column_to_original_key, \* the projected columns, in map order
    \* the handler: every projection resolution it was told of
    projection_resolutions,
    \* the caller's loop: "ready" to call deserialize_next_ir_unit, or holding
    \* what the call "returned"
    caller,
    \* the last call of deserialize_next_ir_unit
    unit,              \* the unit the reader delivered
    evaluated_value,   \* evaluate()'s result, "None" when it did not run
    calls,             \* the handler callbacks made, in order
    tag_read,          \* whether the call read a tag from the reader
    ret,               \* what the call returned
    handler_returned,  \* the IRErrorCode each callback of calls returned
    \* a call of one of the free-standing functions (preprocess_query,
    \* Deserializer::create): its arguments and, once it returned, its result
    fn_call,
    \* a reducer::DeserializedRecordIterator: its members
    record_iterator,
    \* the ReaderInterface the caller passes to every call: what the stream
    \* holds and how much of it the calls have taken
    reader,
    \* a reducer::BufferedSocketWriter: its members, the bytes its socket was
    \* sent and the bytes it was given
    buffered_writer

members ==
    <<m_auto_gen_keys_schema_tree, m_user_gen_keys_schema_tree, m_utc_offset,
      m_is_complete, m_query, m_partial_resolutions, m_resolutions,
      m_projected_column_to_original_key>>

vars ==
    <<m_auto_gen_keys_schema_tree, m_user_gen_keys_schema_tree, m_utc_offset,
      m_is_complete, m_query, m_partial_resolutions, m_resolutions,
      m_projected_column_to_original_key, projection_resolutions, caller, unit,
      evaluated_value, calls, tag_read, ret, handler_returned, fn_call,
      record_iterator, reader, buffered_writer>>

\* No free-standing function is being called.
NoCall == [fn |-> "none"]

\* No DeserializedRecordIterator exists.
NoIterator == [state |-> "none"]

\* No BufferedSocketWriter exists.
NoWriter == [state |-> "none"]

\* -------------------------------------------------------------- schema tree
\* SchemaTree::NodeLocator
NodeLocator(parent_id, key_name, type) ==
    [parent_id |-> parent_id, key_name |-> key_name, type |-> type]

RootNode == NodeLocator(cRootId, "", "Obj")

SchemaTreeOf(is_auto) ==
    IF is_auto THEN m_auto_gen_keys_schema_tree ELSE m_user_gen_keys_schema_tree

\* SchemaTree::get_node: the node with the id.
get_node(tree, id) == tree[id + 1]
\* SchemaTree::has_node: whether a node with the locator was inserted.
has_node(tree, locator) == \E k \in 2..Len(tree) : tree[k] = locator
\* SchemaTree::insert_node: the id the next node gets.
next_node_id(tree) == Len(tree)
insert_node(tree, locator) == Append(tree, locator)

NodeIds(tree) == 1..(Len(tree) - 1)

\* The key path of a node from the root, the root excluded.
RECURSIVE KeyPath(_, _)
KeyPath(tree, id) ==
    IF id = cRootId THEN <<>>
    ELSE Append(KeyPath(tree, get_node(tree, id).parent_id), get_node(tree, id).key_name)

\* -------------------------------------------------------------- resolution
\* Variant of is_projected: no column is looked up as a projected one.
is_projected_never(col) == FALSE

is_projected(col) ==
    \E k \in 1..Len(m_projected_column_to_original_key) :
        m_projected_column_to_original_key[k] = col

\* m_partial_resolutions[key].push_back(value), on a std::map
push_partial(pr, key, value) ==
    IF key \in DOMAIN pr THEN [pr EXCEPT ![key] = Append(@, value)]
    ELSE pr @@ (key :> <<value>>)

\* Variant of push_resolution: the node id takes the place of the list.
push_resolution_overwrites(res, col, node_id) ==
    IF col \in DOMAIN res THEN [res EXCEPT ![col] = <<node_id>>]
    ELSE res @@ (col :> <<node_id>>)

\* m_resolutions[col].push_back(node_id), on a std::map
push_resolution(res, col, node_id) ==
    IF col \in DOMAIN res THEN [res EXCEPT ![col] = Append(@, node_id)]
    ELSE res @@ (col :> <<node_id>>)

EmptyMap == [k \in {} |-> <<>>]

\* initialize_partial_resolutions, the loop over the projected columns
RECURSIVE init_projected(_, _)
init_projected(projected, pr) ==
    IF projected = <<>> THEN pr
    ELSE init_projected(
             Tail(projected),
             push_partial(pr, <<cRootId, is_autogen_namespace(Head(projected))>>,
                          <<Head(projected), descriptor_begin(Head(projected))>>))

\* initialize_partial_resolutions, the entries of one filter's column
init_filter_column(col, pr) ==
    IF is_pure_wildcard(col) \/ get_descriptor_list(col) = <<>> THEN pr
    ELSE LET key == <<cRootId, is_autogen_namespace(col)>>
             first == push_partial(pr, key, <<col, descriptor_begin(col)>>)
         IN  IF wildcard(col, descriptor_begin(col))
             THEN push_partial(first, key, <<col, descriptor_begin(col) + 1>>)
             ELSE first

\* initialize_partial_resolutions, the work list over the query: the last
\* expression of the list is taken first.
RECURSIVE init_work_list(_, _)
init_work_list(work_list, pr) ==
    IF work_list = <<>> THEN pr
    ELSE LET expr == work_list[Len(work_list)]
             rest == SubSeq(work_list, 1, Len(work_list) - 1)
         IN  IF expr.type \in {"And", "Or"}
             THEN init_work_list(rest \o expr.ops, pr)
             ELSE IF expr.type = "Filter"
             THEN init_work_list(rest, init_filter_column(expr.col, pr))
             ELSE init_work_list(rest, pr)

initialize_partial_resolutions(query, projected) ==
    LET pr == init_projected(projected, EmptyMap)
    IN  IF query.type = "Null" THEN pr ELSE init_work_list(<<query>>, pr)

\* Whether the handler fails the next callback of a call in which it has
\* answered the callbacks in made; fail_at is the callback it fails.
handler_fails(made, fail_at) == Len(made) + 1 = fail_at

\* What the callbacks of a call returned when the handler fails callback
\* fail_at with err.
handler_results(made, fail_at, err) ==
    [k \in 1..Len(made) |-> IF k = fail_at THEN err ELSE "IRErrorCode_Success"]

\* ir_error_code_to_errc: the error that carries a handler's code.
ir_error_code_to_errc(err) == "HandlerError(" \o err \o ")"

\* The value a call returns: "handler_error" stands for
\* `return ir_error_code_to_errc(err)`.
returned_value(outcome, err) ==
    IF outcome = "handler_error" THEN ir_error_code_to_errc(err) ELSE outcome

ProjectionCall(is_auto, node_id, key) ==
    [cb |-> "handle_projection_resolution", is_auto |-> is_auto,
     node_id |-> node_id, key |-> key]

\* Variant of terminal_match: the node's key name is not compared with the
\* token.
terminal_match_any_key(st, col, cur_token, is_auto, node_locator, node_id, fail_at) ==
    IF matches_any(col, node_to_literal_types(node_locator.type))
    THEN IF is_projected(col)
         THEN [st EXCEPT
                  !.calls = Append(@, ProjectionCall(is_auto, node_id, OriginalKey(col))),
                  !.err = handler_fails(st.calls, fail_at)]
         ELSE [st EXCEPT !.res = push_resolution(@, col, node_id)]
    ELSE st

\* handle_resolution_update_step, the terminal match of one partial
\* resolution: st is the state of the loop.
terminal_match(st, col, cur_token, is_auto, node_locator, node_id, fail_at) ==
    IF /\ matches_any(col, node_to_literal_types(node_locator.type))
       /\ \/ wildcard(col, cur_token)
          \/ get_token(col, cur_token) = node_locator.key_name
    THEN IF is_projected(col)
         THEN [st EXCEPT
                  !.calls = Append(@, ProjectionCall(is_auto, node_id, OriginalKey(col))),
                  !.err = handler_fails(st.calls, fail_at)]
         ELSE [st EXCEPT !.res = push_resolution(@, col, node_id)]
    ELSE st

\* Variant of intermediate_match: a wildcard after a matched key is not
\* allowed to match nothing.
intermediate_match_no_zero_width(st, col, cur_token, token_it, node_locator, next_resolution_key) ==
    IF wildcard(col, cur_token)
    THEN [st EXCEPT
             !.pr = push_partial(push_partial(@, next_resolution_key, <<col, cur_token>>),
                                 next_resolution_key, <<col, token_it>>)]
    ELSE IF get_token(col, cur_token) = node_locator.key_name
    THEN [st EXCEPT !.pr = push_partial(@, next_resolution_key, <<col, token_it>>)]
    ELSE st

\* Variant of intermediate_match: a wildcard is left behind after one level.
intermediate_match_one_level(st, col, cur_token, token_it, node_locator, next_resolution_key) ==
    IF wildcard(col, cur_token)
    THEN [st EXCEPT !.pr = push_partial(@, next_resolution_key, <<col, token_it>>)]
    ELSE IF get_token(col, cur_token) = node_locator.key_name
    THEN IF wildcard(col, token_it) /\ descriptor_end(col) # token_it + 1
         THEN [st EXCEPT
                  !.pr = push_partial(push_partial(@, next_resolution_key, <<col, token_it>>),
                                      next_resolution_key, <<col, token_it + 1>>)]
         ELSE [st EXCEPT !.pr = push_partial(@, next_resolution_key, <<col, token_it>>)]
    ELSE st

\* handle_resolution_update_step, the intermediate match of one partial
\* resolution on an object node.
intermediate_match(st, col, cur_token, token_it, node_locator, next_resolution_key) ==
    IF wildcard(col, cur_token)
    THEN [st EXCEPT
             !.pr = push_partial(push_partial(@, next_resolution_key, <<col, cur_token>>),
                                 next_resolution_key, <<col, token_it>>)]
    ELSE IF get_token(col, cur_token) = node_locator.key_name
    THEN IF wildcard(col, token_it) /\ descriptor_end(col) # token_it + 1
         THEN [st EXCEPT
                  !.pr = push_partial(push_partial(@, next_resolution_key, <<col, token_it>>),
                                      next_resolution_key, <<col, token_it + 1>>)]
         ELSE [st EXCEPT !.pr = push_partial(@, next_resolution_key, <<col, token_it>>)]
    ELSE st

\* handle_resolution_update_step, the body of the loop for one partial
\* resolution.
resolution_update(st, partial_resolution, is_auto, node_locator, node_id, fail_at) ==
    LET col == partial_resolution[1]
        cur_token == partial_resolution[2]
        token_it == cur_token + 1
        is_last_token == descriptor_end(col) = token_it
    IN  IF ~is_last_token /\ node_locator.type = "Obj"
        THEN intermediate_match(st, col, cur_token, token_it, node_locator,
                                <<node_id, is_auto>>)
        ELSE IF \/ is_last_token
                \/ /\ ~is_last_token
                   /\ wildcard(col, token_it)
                   /\ descriptor_end(col) = token_it + 1
        THEN terminal_match(st, col, cur_token, is_auto, node_locator, node_id, fail_at)
        ELSE st

\* handle_resolution_update_step, the loop: it returns at the first handler
\* error.
RECURSIVE resolution_loop(_, _, _, _, _, _)
resolution_loop(st, partials, is_auto, node_locator, node_id, fail_at) ==
    IF partials = <<>> \/ st.err THEN st
    ELSE resolution_loop(
             resolution_update(st, Head(partials), is_auto, node_locator, node_id, fail_at),
             Tail(partials), is_auto, node_locator, node_id, fail_at)

\* Variant of handle_resolution_update_step: when the parent has no partial
\* resolutions those of the root are taken.
handle_resolution_update_step_falls_back_to_root(is_auto, node_locator, node_id, fail_at) ==
    LET key == <<node_locator.parent_id, is_auto>>
        root == <<cRootId, is_auto>>
        used == IF key \in DOMAIN m_partial_resolutions THEN key ELSE root
        st0 == [pr |-> m_partial_resolutions, res |-> m_resolutions,
                calls |-> <<>>, err |-> FALSE]
    IN  IF used \notin DOMAIN m_partial_resolutions THEN st0
        ELSE resolution_loop(st0, m_partial_resolutions[used], is_auto, node_locator,
                             node_id, fail_at)

\* handle_resolution_update_step: the partial and final resolutions after the
\* step, the callbacks made and whether a callback failed.
handle_resolution_update_step(is_auto, node_locator, node_id, fail_at) ==
    LET key == <<node_locator.parent_id, is_auto>>
        st0 == [pr |-> m_partial_resolutions, res |-> m_resolutions,
                calls |-> <<>>, err |-> FALSE]
    IN  IF key \notin DOMAIN m_partial_resolutions THEN st0
        ELSE resolution_loop(st0, m_partial_resolutions[key], is_auto, node_locator,
                             node_id, fail_at)

\* -------------------------------------------------------------- evaluation
\* A log event's node-id/value pairs: .auto and .user map node ids to values.
PairsOf(node_id_value_pairs, is_auto) ==
    IF is_auto THEN node_id_value_pairs.auto ELSE node_id_value_pairs.user

\* evaluate_filter, the pairs of one namespace under a pure-wildcard column
\* whose literal type matches the column.
wildcard_candidates(expr, is_auto, node_id_value_pairs) ==
    LET pairs == PairsOf(node_id_value_pairs, is_auto)
    IN  {id \in DOMAIN pairs :
            matches_type(
                expr.col,
                node_and_value_to_literal_type(get_node(SchemaTreeOf(is_auto), id).type,
                                               pairs[id]))}

wildcard_satisfied(expr, is_auto, node_id_value_pairs) ==
    LET pairs == PairsOf(node_id_value_pairs, is_auto)
    IN  \E id \in wildcard_candidates(expr, is_auto, node_id_value_pairs) :
            evaluate_filter_value(
                expr,
                node_and_value_to_literal_type(get_node(SchemaTreeOf(is_auto), id).type,
                                               pairs[id]),
                pairs[id]) = "True"

\* Variant of evaluate_pure_wildcard_filter: only the pairs of the column's
\* namespace are examined.
evaluate_pure_wildcard_filter_own_namespace(expr, node_id_value_pairs) ==
    LET is_auto == is_autogen_namespace(expr.col)
    IN  IF wildcard_satisfied(expr, is_auto, node_id_value_pairs) THEN "True"
        ELSE IF wildcard_candidates(expr, is_auto, node_id_value_pairs) = {} THEN "Prune"
        ELSE "False"

\* evaluate_filter on a pure-wildcard column
evaluate_pure_wildcard_filter(expr, node_id_value_pairs) ==
    IF \/ wildcard_satisfied(expr, TRUE, node_id_value_pairs)
       \/ wildcard_satisfied(expr, FALSE, node_id_value_pairs)
    THEN "True"
    ELSE IF /\ wildcard_candidates(expr, TRUE, node_id_value_pairs) = {}
            /\ wildcard_candidates(expr, FALSE, node_id_value_pairs) = {}
    THEN "Prune"
    ELSE "False"

\* Variant of first_matched_node_id: the loop does not stop at the first
\* resolved node id that the pairs carry, the last one is taken.
RECURSIVE first_matched_node_id_takes_last(_, _)
first_matched_node_id_takes_last(matching_nodes, relevant_field_pairs) ==
    IF matching_nodes = <<>> THEN cRootId
    ELSE LET later == first_matched_node_id_takes_last(Tail(matching_nodes), relevant_field_pairs)
         IN  IF later # cRootId THEN later
             ELSE IF Head(matching_nodes) \in DOMAIN relevant_field_pairs
             THEN Head(matching_nodes)
             ELSE cRootId

\* evaluate_filter, the loop over the column's resolutions: the first
\* resolved node id that the pairs carry, 0 (the root is never resolved) when
\* there is none.
RECURSIVE first_matched_node_id(_, _)
first_matched_node_id(matching_nodes, relevant_field_pairs) ==
    IF matching_nodes = <<>> THEN cRootId
    ELSE IF Head(matching_nodes) \in DOMAIN relevant_field_pairs
    THEN Head(matching_nodes)
    ELSE first_matched_node_id(Tail(matching_nodes), relevant_field_pairs)

\* Variant of evaluate_matched_node: the value's literal type is not checked
\* against the column.
evaluate_matched_node_unchecked(expr, is_auto, matched_node_id, value) ==
    evaluate_filter_value(
        expr,
        node_and_value_to_literal_type(
            get_node(SchemaTreeOf(is_auto), matched_node_id).type, value),
        value)

\* evaluate_filter, after the matched node id was found
evaluate_matched_node(expr, is_auto, matched_node_id, value) ==
    LET node_type == get_node(SchemaTreeOf(is_auto), matched_node_id).type
        literal_type == node_and_value_to_literal_type(node_type, value)
    IN  IF ~matches_type(expr.col, literal_type) THEN "Prune"
        ELSE evaluate_filter_value(expr, literal_type, value)

evaluate_filter(expr, node_id_value_pairs) ==
    IF is_pure_wildcard(expr.col)
    THEN evaluate_pure_wildcard_filter(expr, node_id_value_pairs)
    ELSE IF expr.col \notin DOMAIN m_resolutions THEN "Prune"
    ELSE LET autogen == is_autogen_namespace(expr.col)
             relevant_field_pairs == PairsOf(node_id_value_pairs, autogen)
             matched_node_id ==
                 first_matched_node_id(m_resolutions[expr.col], relevant_field_pairs)
         IN  IF matched_node_id = cRootId THEN "Prune"
             ELSE evaluate_matched_node(expr, autogen, matched_node_id,
                                        relevant_field_pairs[matched_node_id])

\* evaluate_recursive, the loop of the AndExpr branch over the children's
\* results, in operand order.
RECURSIVE evaluate_and(_, _)
evaluate_and(results, inverted) ==
    IF results = <<>> THEN (IF inverted THEN "False" ELSE "True")
    ELSE IF Head(results) = "Prune" THEN "Prune"
    ELSE IF Head(results) = "False" THEN (IF inverted THEN "True" ELSE "False")
    ELSE evaluate_and(Tail(results), inverted)

\* Variant of evaluate_or_loop: a False child does not clear all_prune.
evaluate_or_loop_keeps_all_prune(results, inverted, all_prune) ==
    IF \E k \in 1..Len(results) : results[k] = "True"
    THEN (IF inverted THEN "False" ELSE "True")
    ELSE IF all_prune THEN "Prune" ELSE (IF inverted THEN "True" ELSE "False")

\* evaluate_recursive, the loop of the OrExpr branch
RECURSIVE evaluate_or_loop(_, _, _)
evaluate_or_loop(results, inverted, all_prune) ==
    IF results = <<>>
    THEN IF all_prune THEN "Prune" ELSE (IF inverted THEN "True" ELSE "False")
    ELSE IF Head(results) = "True" THEN (IF inverted THEN "False" ELSE "True")
    ELSE evaluate_or_loop(Tail(results), inverted,
                          all_prune /\ Head(results) # "False")

evaluate_or(results, inverted) == evaluate_or_loop(results, inverted, TRUE)

\* evaluate_recursive, the end of the filter branch
invert_filter_result(result, inverted) ==
    IF result = "Prune" THEN "Prune"
    ELSE IF ~inverted THEN result
    ELSE IF result = "True" THEN "False" ELSE "True"

RECURSIVE evaluate_recursive(_, _)
evaluate_recursive(expr, node_id_value_pairs) ==
    IF expr.type = "And"
    THEN evaluate_and(
             [k \in 1..Len(expr.ops) |->
                 evaluate_recursive(expr.ops[k], node_id_value_pairs)],
             expr.inverted)
    ELSE IF expr.type = "Or"
    THEN evaluate_or(
             [k \in 1..Len(expr.ops) |->
                 evaluate_recursive(expr.ops[k], node_id_value_pairs)],
             expr.inverted)
    ELSE invert_filter_result(evaluate_filter(expr, node_id_value_pairs), expr.inverted)

\* Variant of evaluate: a null query prunes.
evaluate_query_null_prunes(node_id_value_pairs) ==
    IF m_query.type = "Null" THEN "Prune"
    ELSE evaluate_recursive(m_query, node_id_value_pairs)

evaluate_query(node_id_value_pairs) ==
    IF m_query.type = "Null" THEN "True"
    ELSE evaluate_recursive(m_query, node_id_value_pairs)

\* ------------------------------------------------------------------ inputs
AllValues == UNION {ValuesOfType(type) : type \in NodeTypes}

\* The pair maps over at most n nodes of a tree, each value of a kind its
\* node's type admits.
PairMaps(tree, n) ==
    UNION {{f \in [S -> AllValues] :
               \A id \in S : f[id] \in ValuesOfType(get_node(tree, id).type)} :
           S \in {T \in SUBSET NodeIds(tree) : Cardinality(T) <= n}}

\* The node-id/value pairs the decoder can deliver for a log event.
NodeIdValuePairs ==
    {p \in [auto : PairMaps(m_auto_gen_keys_schema_tree, MaxPairs),
            user : PairMaps(m_user_gen_keys_schema_tree, MaxPairs)] :
        Cardinality(DOMAIN p.auto) + Cardinality(DOMAIN p.user) <= MaxPairs}

NoPairs == [auto |-> EmptyMap, user |-> EmptyMap]

\* The object nodes of a tree: the parents an insertion can name.
ObjectNodeIds(tree) == {id \in 0..(Len(tree) - 1) : get_node(tree, id).type = "Obj"}

InsertedNodes ==
    (Len(m_auto_gen_keys_schema_tree) - 1) + (Len(m_user_gen_keys_schema_tree) - 1)

\* The queries (as preprocess_query returns them) and projections a
\* deserializer is created with.
QueryAB == FilterExpr("ab", "EQ", IntLiteral(1), FALSE)
QueryNotAB == FilterExpr("ab", "EQ", IntLiteral(1), TRUE)
QueryAWB == FilterExpr("awb", "GT", IntLiteral(1), FALSE)
QueryWAWB == FilterExpr("wawb", "GT", IntLiteral(1), FALSE)
QuerySAB == FilterExpr("sab", "EQ", StrLiteral(<<"h">>), FALSE)
QueryNotSAB == FilterExpr("sab", "EQ", StrLiteral(<<"h">>), TRUE)
QueryAnd ==
    AndExpr(<<FilterExpr("cb", "EQ", IntLiteral(1), FALSE),
              FilterExpr("xb", "EQ", IntLiteral(1), FALSE)>>, FALSE)

QueryOr ==
    OrExpr(<<FilterExpr("cb", "EQ", IntLiteral(1), FALSE),
             FilterExpr("xb", "EQ", IntLiteral(1), FALSE)>>, FALSE)
QueryNotOr ==
    OrExpr(<<FilterExpr("cb", "EQ", IntLiteral(1), FALSE),
             FilterExpr("xb", "EQ", IntLiteral(1), FALSE)>>, TRUE)
QueryOr3 ==
    OrExpr(<<FilterExpr("cb", "EQ", IntLiteral(1), FALSE),
             FilterExpr("xb", "EQ", IntLiteral(1), FALSE),
             FilterExpr("ab", "EQ", IntLiteral(2), TRUE)>>, FALSE)

QueryW == FilterExpr("w", "EQ", StrLiteral(<<"h">>), FALSE)
QueryNotW == FilterExpr("w", "EQ", StrLiteral(<<"h">>), TRUE)
QueryWN == FilterExpr("wn", "EQ", IntLiteral(1), FALSE)

QueryOrWild ==
    OrExpr(<<FilterExpr("aw", "GT", IntLiteral(1), FALSE),
             FilterExpr("xb", "EQ", IntLiteral(1), TRUE)>>, FALSE)
QueryAndWild ==
    AndExpr(<<FilterExpr("awb", "GT", IntLiteral(1), FALSE),
              FilterExpr("aw", "GT", IntLiteral(1), FALSE)>>, FALSE)

Config(query, projection) == [query |-> query, projection |-> projection]

Configs ==
    {Config(QueryAB, <<>>), Config(QueryAnd, <<>>),
     Config(NullExpr, <<"p_ab", "p_a">>)}
\* Deserializers with an Or query
ConfigsOr == {Config(QueryOr, <<>>), Config(QueryNotOr, <<>>), Config(QueryOr3, <<>>)}
\* Deserializers with one filter on a column without wildcards
ConfigsFilter ==
    {Config(QuerySAB, <<>>), Config(QueryNotSAB, <<>>), Config(QueryNotAB, <<>>)}
\* Deserializers with one filter on a column with wildcards
ConfigsWild == {Config(QueryAWB, <<>>), Config(QueryWAWB, <<>>)}

\* ------------------------------------------------------------------- reader
\* A reader of which nothing is known: every call may find any unit, or no
\* unit, in it.
AnyReader == [ends_with |-> "any"]

\* How a stream ends after its units: with the end-of-stream unit, or cut off
\* before a tag, or with a tag of no unit type, or with a unit whose payload
\* cannot be decoded.
StreamEnds == {"EndOfStream", "truncated", "unknown_tag", "corrupt_unit"}

\* A reader at the start of a stream of `units` decodable units that are not
\* the end-of-stream unit, followed by `ends_with`.  consumed counts the
\* whole units the calls have taken, calls the calls made, and failed tells
\* whether one of them returned an error.
StreamReader(units, ends_with) ==
    [ends_with |-> ends_with, units |-> units, consumed |-> 0, calls |-> 0,
     failed |-> FALSE]

StreamReaders == {StreamReader(units, e) : units \in 0..MaxUnits, e \in StreamEnds}

\* The caller calls again (the calls on a counted stream are bounded).
CallsLeft == IF reader = AnyReader THEN TRUE ELSE reader.calls < MaxCalls

\* What a call finds next in the reader: a "unit", or the way the stream ends.
ReaderDelivers(kind) ==
    IF reader = AnyReader THEN TRUE
    ELSE /\ reader.calls < MaxCalls
         /\ IF kind = "unit" THEN reader.consumed < reader.units
            ELSE reader.consumed = reader.units /\ reader.ends_with = kind

\* The values of a call that took a unit without an error: the unit's type,
\* or the filtered status.
UnitReturns ==
    {"LogEvent", "SchemaTreeNodeInsertion", "UtcOffsetChange", "EndOfStream", "no_message"}

\* Variant of reader_after: the unit of a filtered log event stays in the
\* reader.
reader_after_keeps_filtered_unit(consumes, returned) ==
    IF reader = AnyReader THEN reader
    ELSE [reader EXCEPT !.consumed = @ + (IF consumes /\ returned # "no_message" THEN 1 ELSE 0),
                        !.calls = @ + 1,
                        !.failed = @ \/ returned \notin UnitReturns]

\* The reader after a call that returned `returned`; consumes tells whether
\* deserialize_tag and the decoder of the unit read a whole unit.
reader_after(consumes, returned) ==
    IF reader = AnyReader THEN reader
    ELSE [reader EXCEPT !.consumed = @ + (IF consumes THEN 1 ELSE 0),
                        !.calls = @ + 1,
                        !.failed = @ \/ returned \notin UnitReturns]

\* ------------------------------------------------------------------ actions
\* Variant of is_stream_completed: the end of the stream is not remembered.
is_stream_completed_never == FALSE

is_stream_completed == m_is_complete

\* The state after Deserializer::create returned a deserializer.
InitWithReader(config, stream) ==
    /\ m_auto_gen_keys_schema_tree = <<RootNode>>
    /\ m_user_gen_keys_schema_tree = <<RootNode>>
    /\ m_utc_offset = 0
    /\ m_is_complete = FALSE
    /\ m_query = config.query
    /\ m_projected_column_to_original_key = config.projection
    /\ m_partial_resolutions =
           initialize_partial_resolutions(config.query, config.projection)
    /\ m_resolutions = EmptyMap
    /\ projection_resolutions = <<>>
    /\ caller = "ready"
    /\ unit = [type |-> "None"]
    /\ evaluated_value = "None"
    /\ calls = <<>>
    /\ tag_read = FALSE
    /\ ret = "None"
    /\ handler_returned = <<>>
    /\ fn_call = NoCall
    /\ record_iterator = NoIterator
    /\ reader = stream
    /\ buffered_writer = NoWriter

\* The state after construction, with a reader of which nothing is known.
InitWith(config) == InitWithReader(config, AnyReader)

Init == \E config \in Configs : InitWith(config)

\* The caller takes the result of a call and is ready to call again.
CallerTakesResult ==
    /\ caller = "returned"
    /\ caller' = "ready"
    /\ UNCHANGED <<fn_call, record_iterator, buffered_writer>>
    /\ unit' = [type |-> "None"]
    /\ evaluated_value' = "None"
    /\ calls' = <<>>
    /\ tag_read' = FALSE
    /\ ret' = "None"
    /\ handler_returned' = <<>>
    /\ UNCHANGED <<members, projection_resolutions>>
    /\ UNCHANGED reader

\* deserialize_next_ir_unit after the end of the stream
CallAfterEndOfStream ==
    /\ caller = "ready" /\ caller' = "returned"
    /\ UNCHANGED <<fn_call, record_iterator, buffered_writer>>
    /\ CallsLeft
    /\ is_stream_completed
    /\ unit' = [type |-> "None"]
    /\ evaluated_value' = "None"
    /\ calls' = <<>>
    /\ tag_read' = FALSE
    /\ ret' = "operation_not_permitted"
    /\ handler_returned' = <<>>
    /\ UNCHANGED <<members, projection_resolutions>>
    /\ reader' = reader_after(FALSE, ret')

\* deserialize_tag fails: the reader has no tag byte
TagFailure ==
    /\ caller = "ready" /\ caller' = "returned"
    /\ UNCHANGED <<fn_call, record_iterator, buffered_writer>>
    /\ ReaderDelivers("truncated")
    /\ ~is_stream_completed
    /\ unit' = [type |-> "None"]
    /\ evaluated_value' = "None"
    /\ calls' = <<>>
    /\ tag_read' = TRUE
    /\ ret' = "tag_error"
    /\ handler_returned' = <<>>
    /\ UNCHANGED <<members, projection_resolutions>>
    /\ reader' = reader_after(FALSE, ret')

\* Variant of unknown_tag_outcome: the tag is taken for the end of the stream.
unknown_tag_outcome_end_of_stream ==
    [calls |-> <<[cb |-> "handle_end_of_stream"]>>, ret |-> "EndOfStream"]

\* What the call does when get_ir_unit_type_from_tag has no unit type for
\* the tag: the callbacks made and the value returned.
unknown_tag_outcome == [calls |-> <<>>, ret |-> "protocol_not_supported"]

\* get_ir_unit_type_from_tag has no unit type for the tag
UnknownTag ==
    /\ caller = "ready" /\ caller' = "returned"
    /\ UNCHANGED <<fn_call, record_iterator, buffered_writer>>
    /\ ReaderDelivers("unknown_tag")
    /\ ~is_stream_completed
    /\ unit' = [type |-> "Unknown"]
    /\ evaluated_value' = "None"
    /\ calls' = unknown_tag_outcome.calls
    /\ tag_read' = TRUE
    /\ ret' = unknown_tag_outcome.ret
    /\ handler_returned' = [k \in 1..Len(unknown_tag_outcome.calls) |-> "IRErrorCode_Success"]
    /\ UNCHANGED <<members, projection_resolutions>>
    /\ reader' = reader_after(FALSE, ret')

\* The decoder of the unit's payload fails.
UnitDecodingFailure ==
    /\ caller = "ready" /\ caller' = "returned"
    /\ UNCHANGED <<fn_call, record_iterator, buffered_writer>>
    /\ ReaderDelivers("corrupt_unit")
    /\ ~is_stream_completed
    /\ \E type \in {"LogEvent", "SchemaTreeNodeInsertion", "UtcOffsetChange"} :
           unit' = [type |-> type, decoded |-> FALSE]
    /\ evaluated_value' = "None"
    /\ calls' = <<>>
    /\ tag_read' = TRUE
    /\ ret' = "decoding_error"
    /\ handler_returned' = <<>>
    /\ UNCHANGED <<members, projection_resolutions>>
    /\ reader' = reader_after(FALSE, ret')

LogEventCall(node_id_value_pairs) ==
    [cb |-> "handle_log_event", pairs |-> node_id_value_pairs]

\* Variant of log_event_outcome: only a False event is dropped.
log_event_outcome_drops_false_only(evaluated, node_id_value_pairs, create_ok, fail_at) ==
    IF evaluated = "False" THEN [calls |-> <<>>, ret |-> "no_message"]
    ELSE IF ~create_ok THEN [calls |-> <<>>, ret |-> "create_error"]
    ELSE [calls |-> <<LogEventCall(node_id_value_pairs)>>,
          ret |-> IF handler_fails(<<>>, fail_at) THEN "handler_error" ELSE "LogEvent"]

\* The LogEvent case after evaluate(): the callbacks made and the value
\* returned.  create_ok is the result of KeyValuePairLogEvent::create.
log_event_outcome(evaluated, node_id_value_pairs, create_ok, fail_at) ==
    IF evaluated # "True" THEN [calls |-> <<>>, ret |-> "no_message"]
    ELSE IF ~create_ok THEN [calls |-> <<>>, ret |-> "create_error"]
    ELSE [calls |-> <<LogEventCall(node_id_value_pairs)>>,
          ret |-> IF handler_fails(<<>>, fail_at) THEN "handler_error" ELSE "LogEvent"]

\* What evaluate() can return for the pairs.  For an EmptyExpr query
\* evaluate_recursive casts the expression to FilterExpr and reads a column
\* it does not have: the behaviour is undefined and any value may come back.
evaluate_outcomes(node_id_value_pairs) ==
    IF m_query.type = "Empty" THEN EvaluatedValues
    ELSE {evaluate_query(node_id_value_pairs)}

DeserializeLogEvent ==
    /\ caller = "ready" /\ caller' = "returned"
    /\ UNCHANGED <<fn_call, record_iterator, buffered_writer>>
    /\ ReaderDelivers("unit")
    /\ ~is_stream_completed
    /\ \E node_id_value_pairs \in NodeIdValuePairs, create_ok \in BOOLEAN,
          fail_at \in FailAt, err \in HandlerErrorCodes :
         \E evaluated \in evaluate_outcomes(node_id_value_pairs) :
           LET outcome == log_event_outcome(evaluated, node_id_value_pairs, create_ok,
                                            fail_at)
           IN  /\ unit' = [type |-> "LogEvent", pairs |-> node_id_value_pairs]
               /\ evaluated_value' = evaluated
               /\ calls' = outcome.calls
               /\ ret' = returned_value(outcome.ret, err)
               /\ handler_returned' = handler_results(outcome.calls, fail_at, err)
    /\ tag_read' = TRUE
    /\ UNCHANGED <<members, projection_resolutions>>
    /\ reader' = reader_after(TRUE, ret')

\* Variant of is_duplicate_insertion: the tree is not asked for the locator.
is_duplicate_insertion_never(is_auto, node_locator) == FALSE

\* Variant of is_duplicate_insertion: the tree of the other namespace is asked.
is_duplicate_insertion_other_tree(is_auto, node_locator) ==
    has_node(SchemaTreeOf(~is_auto), node_locator)

\* The SchemaTreeNodeInsertion case: schema_tree_to_insert->has_node(node_locator)
is_duplicate_insertion(is_auto, node_locator) ==
    has_node(SchemaTreeOf(is_auto), node_locator)

\* Variant of InsertionCall: the handler is given the tree as it was before
\* insert_node.
InsertionCall_tree_before_insert(is_auto, node_locator) ==
    [cb |-> "handle_schema_tree_node_insertion", is_auto |-> is_auto,
     locator |-> node_locator, schema_tree |-> SchemaTreeOf(is_auto)]

\* The call of handle_schema_tree_node_insertion: schema_tree is what the
\* shared pointer schema_tree_to_insert shows the handler, the tree after
\* insert_node.
InsertionCall(is_auto, node_locator) ==
    [cb |-> "handle_schema_tree_node_insertion", is_auto |-> is_auto,
     locator |-> node_locator,
     schema_tree |-> insert_node(SchemaTreeOf(is_auto), node_locator)]

\* Variant of insertion_outcome: an error of the resolution step is dropped.
insertion_outcome_drops_resolution_error(st, is_auto, node_locator, fail_at) ==
    [calls |-> Append(st.calls, InsertionCall(is_auto, node_locator)),
     ret |-> IF handler_fails(st.calls, fail_at) THEN "handler_error"
             ELSE "SchemaTreeNodeInsertion"]

\* The SchemaTreeNodeInsertion case after the node was inserted: st is the
\* result of the resolution step.
insertion_outcome(st, is_auto, node_locator, fail_at) ==
    IF st.err THEN [calls |-> st.calls, ret |-> "handler_error"]
    ELSE [calls |-> Append(st.calls, InsertionCall(is_auto, node_locator)),
          ret |-> IF handler_fails(st.calls, fail_at) THEN "handler_error"
                  ELSE "SchemaTreeNodeInsertion"]

DeserializeSchemaTreeNodeInsertion ==
    /\ caller = "ready" /\ caller' = "returned"
    /\ UNCHANGED <<fn_call, record_iterator, buffered_writer>>
    /\ ReaderDelivers("unit")
    /\ ~is_stream_completed
    /\ \E key \in StreamKeys, fail_at \in FailAt, err \in HandlerErrorCodes :
         \E parent_id \in ObjectNodeIds(SchemaTreeOf(key[1])) :
           LET is_auto == key[1]
               schema_tree_to_insert == SchemaTreeOf(is_auto)
               node_locator == NodeLocator(parent_id, key[2], key[3])
               node_id == next_node_id(schema_tree_to_insert)
               st == handle_resolution_update_step(is_auto, node_locator, node_id, fail_at)
               outcome == insertion_outcome(st, is_auto, node_locator, fail_at)
           IN  /\ unit' = [type |-> "SchemaTreeNodeInsertion", is_auto |-> is_auto,
                           locator |-> node_locator]
               /\ IF is_duplicate_insertion(is_auto, node_locator)
                  THEN /\ calls' = <<>>
                       /\ ret' = "protocol_error"
                       /\ handler_returned' = <<>>
                       /\ UNCHANGED <<m_auto_gen_keys_schema_tree,
                                      m_user_gen_keys_schema_tree,
                                      m_partial_resolutions, m_resolutions,
                                      projection_resolutions>>
                  ELSE /\ InsertedNodes < MaxNodes
                       /\ m_auto_gen_keys_schema_tree' =
                              IF is_auto
                              THEN insert_node(m_auto_gen_keys_schema_tree, node_locator)
                              ELSE m_auto_gen_keys_schema_tree
                       /\ m_user_gen_keys_schema_tree' =
                              IF is_auto THEN m_user_gen_keys_schema_tree
                              ELSE insert_node(m_user_gen_keys_schema_tree, node_locator)
                       /\ m_partial_resolutions' = st.pr
                       /\ m_resolutions' = st.res
                       /\ projection_resolutions' = projection_resolutions \o st.calls
                       /\ calls' = outcome.calls
                       /\ ret' = returned_value(outcome.ret, err)
                       /\ handler_returned' =
                              handler_results(outcome.calls, fail_at, err)
    /\ evaluated_value' = "None"
    /\ tag_read' = TRUE
    /\ UNCHANGED <<m_utc_offset, m_is_complete, m_query,
                   m_projected_column_to_original_key>>
    /\ reader' = reader_after(TRUE, ret')

UtcOffsetChangeCall(utc_offset_old, utc_offset_new) ==
    [cb |-> "handle_utc_offset_change", old |-> utc_offset_old, new |-> utc_offset_new]

\* Variant of utc_offset_change_outcome: the offset is stored before the
\* handler answers.
utc_offset_change_outcome_stores_first(utc_offset, new_utc_offset, fail_at) ==
    [calls |-> <<UtcOffsetChangeCall(utc_offset, new_utc_offset)>>,
     ret |-> IF handler_fails(<<>>, fail_at) THEN "handler_error" ELSE "UtcOffsetChange",
     utc_offset |-> new_utc_offset]

\* The UtcOffsetChange case after the offset was decoded: the callback made,
\* the value returned and the offset stored.
utc_offset_change_outcome(utc_offset, new_utc_offset, fail_at) ==
    [calls |-> <<UtcOffsetChangeCall(utc_offset, new_utc_offset)>>,
     ret |-> IF handler_fails(<<>>, fail_at) THEN "handler_error" ELSE "UtcOffsetChange",
     utc_offset |-> IF handler_fails(<<>>, fail_at) THEN utc_offset ELSE new_utc_offset]

DeserializeUtcOffsetChange ==
    /\ caller = "ready" /\ caller' = "returned"
    /\ UNCHANGED <<fn_call, record_iterator, buffered_writer>>
    /\ ReaderDelivers("unit")
    /\ ~is_stream_completed
    /\ \E new_utc_offset \in UtcOffsets, fail_at \in FailAt, err \in HandlerErrorCodes :
           LET outcome == utc_offset_change_outcome(m_utc_offset, new_utc_offset, fail_at)
           IN  /\ unit' = [type |-> "UtcOffsetChange", utc_offset |-> new_utc_offset]
               /\ calls' = outcome.calls
               /\ ret' = returned_value(outcome.ret, err)
               /\ handler_returned' = handler_results(outcome.calls, fail_at, err)
               /\ m_utc_offset' = outcome.utc_offset
    /\ evaluated_value' = "None"
    /\ tag_read' = TRUE
    /\ UNCHANGED <<m_auto_gen_keys_schema_tree, m_user_gen_keys_schema_tree,
                   m_is_complete, m_query, m_partial_resolutions, m_resolutions,
                   m_projected_column_to_original_key, projection_resolutions>>
    /\ reader' = reader_after(TRUE, ret')

DeserializeEndOfStream ==
    /\ caller = "ready" /\ caller' = "returned"
    /\ UNCHANGED <<fn_call, record_iterator, buffered_writer>>
    /\ ReaderDelivers("EndOfStream")
    /\ ~is_stream_completed
    /\ \E fail_at \in FailAt, err \in HandlerErrorCodes :
           /\ IF handler_fails(<<>>, fail_at)
              THEN ret' = ir_error_code_to_errc(err) /\ UNCHANGED m_is_complete
              ELSE ret' = "EndOfStream" /\ m_is_complete' = TRUE
           /\ handler_returned' =
                  handler_results(<<[cb |-> "handle_end_of_stream"]>>, fail_at, err)
    /\ unit' = [type |-> "EndOfStream"]
    /\ calls' = <<[cb |-> "handle_end_of_stream"]>>
    /\ evaluated_value' = "None"
    /\ tag_read' = TRUE
    /\ UNCHANGED <<m_auto_gen_keys_schema_tree, m_user_gen_keys_schema_tree,
                   m_utc_offset, m_query, m_partial_resolutions, m_resolutions,
                   m_projected_column_to_original_key, projection_resolutions>>
    /\ reader' = reader_after(TRUE, ret')

\* The caller's loop around deserialize_next_ir_unit
Next ==
    \/ CallerTakesResult
    \/ CallAfterEndOfStream
    \/ TagFailure
    \/ UnknownTag
    \/ UnitDecodingFailure
    \/ DeserializeLogEvent
    \/ DeserializeSchemaTreeNodeInsertion
    \/ DeserializeUtcOffsetChange
    \/ DeserializeEndOfStream

Spec == Init /\ [][Next]_vars

InitOr == \E config \in ConfigsOr : InitWith(config)
SpecOr == InitOr /\ [][Next]_vars

InitFilter == \E config \in ConfigsFilter : InitWith(config)
SpecFilter == InitFilter /\ [][Next]_vars

\* Deserializers with one filter on a pure-wildcard column
ConfigsPure == {Config(QueryW, <<>>), Config(QueryNotW, <<>>), Config(QueryWN, <<>>)}
InitPure == \E config \in ConfigsPure : InitWith(config)
SpecPure == InitPure /\ [][Next]_vars

\* Deserializers with an And or Or over columns with wildcards
ConfigsSound == {Config(QueryOrWild, <<>>), Config(QueryAndWild, <<>>)}
InitSound == \E config \in ConfigsSound : InitWith(config)
SpecSound == InitSound /\ [][Next]_vars

InitWild == \E config \in ConfigsWild : InitWith(config)
SpecWild == InitWild /\ [][Next]_vars

\* Deserializers with one NEXISTS filter that is not inverted
QueryNexistsSAB == FilterExpr("sab", "NEXISTS", StrLiteral(<<"h">>), FALSE)
QueryNexistsAB == FilterExpr("ab", "NEXISTS", IntLiteral(1), FALSE)
ConfigsNexists == {Config(QueryNexistsSAB, <<>>), Config(QueryNexistsAB, <<>>)}
InitNexists == \E config \in ConfigsNexists : InitWith(config)
SpecNexists == InitNexists /\ [][Next]_vars

\* Deserializers without a query
ConfigsNull ==
    {Config(NullExpr, <<>>), Config(NullExpr, <<"p_ab", "p_a">>),
     Config(NullExpr, <<"p_xb">>)}
InitNull == \E config \in ConfigsNull : InitWith(config)
SpecNull == InitNull /\ [][Next]_vars

\* Deserializers reading a counted stream, called again and again by a
\* caller that never stops calling (at most MaxCalls times here).
ConfigsStream == {Config(QueryAB, <<>>), Config(NullExpr, <<"p_ab">>)}
InitStream ==
    \E config \in ConfigsStream, stream \in StreamReaders : InitWithReader(config, stream)
SpecStream == InitStream /\ [][Next]_vars /\ WF_vars(Next)

\* -------------------------------------------------------- preprocess_query
\* The queries preprocess_query is given: a filter carries its column's key
\* and the literal types the column may still match.
RawFilter(col, flags, op, operand, inverted) ==
    [type |-> "Filter", col |-> col, flags |-> flags, op |-> op, operand |-> operand,
     inverted |-> inverted]

\* clp_s::search::ast::EmptyExpr
EmptyExpr == [type |-> "Empty"]

\* A query that preprocess_query reduced to EmptyExpr: create() stores it as
\* m_query without looking at it.
ConfigsEmpty == {Config(EmptyExpr, <<>>), Config(EmptyExpr, <<"p_ab">>)}

InitEmpty == \E config \in ConfigsEmpty : InitWith(config)

SpecEmpty == InitEmpty /\ [][Next]_vars

\* The product of two disjunctions of conjunctions, in the order of the first.
ProductOfAnds(left, right) ==
    [k \in 1..(Len(left) * Len(right)) |->
        left[((k - 1) \div Len(right)) + 1] \o right[((k - 1) % Len(right)) + 1]]

RECURSIVE ConcatAll(_)
ConcatAll(seqs) == IF seqs = <<>> THEN <<>> ELSE Head(seqs) \o ConcatAll(Tail(seqs))

RECURSIVE ProductAll(_)
ProductAll(seqs) ==
    IF seqs = <<>> THEN << <<>> >> ELSE ProductOfAnds(Head(seqs), ProductAll(Tail(seqs)))

\* The disjunction of conjunctions of filters an expression stands for, its
\* inversions pushed to the filters (De Morgan), nested And/Or flattened.  An
\* EmptyExpr stands for no conjunction.
RECURSIVE OrOfAnds(_, _)
OrOfAnds(expr, negate) ==
    IF expr.type = "Empty" THEN <<>>
    ELSE LET inverted == (expr.inverted # negate)
         IN  IF expr.type = "Filter" THEN << <<[expr EXCEPT !.inverted = inverted]>> >>
             ELSE LET parts == [k \in 1..Len(expr.ops) |-> OrOfAnds(expr.ops[k], inverted)]
                  IN  IF (expr.type = "And") # inverted
                      THEN ProductAll(parts)
                      ELSE ConcatAll(parts)

\* The expression of a disjunction of conjunctions: EmptyExpr for none, the And
\* for one, else the Or of the Ands.
NormalForm(ands) ==
    IF ands = <<>> THEN EmptyExpr
    ELSE IF Len(ands) = 1 THEN AndExpr(ands[1], FALSE)
    ELSE OrExpr([k \in 1..Len(ands) |-> AndExpr(ands[k], FALSE)], FALSE)

\* Variant of OrOfAndForm_run: the normal form of the negated query.
OrOfAndForm_run_negated(expr) == NormalForm(OrOfAnds(expr, TRUE))

\* OrOfAndForm::run
OrOfAndForm_run(expr) == NormalForm(OrOfAnds(expr, FALSE))

\* The literal types an operand can be compared with.
CompatibleTypes(operand) ==
    IF operand.lt = "Integral" THEN {"IntegerT", "FloatT"}
    ELSE IF operand.s = <<"*">> THEN cAllTypes
    ELSE {"ClpStringT", "VarStringT"}

\* The conjunctions of an expression in normal form.
AndsOf(expr) ==
    IF expr.type = "Empty" THEN <<>>
    ELSE IF expr.type = "And" THEN <<expr.ops>>
    ELSE [k \in 1..Len(expr.ops) |-> expr.ops[k].ops]

NarrowFilter(filter) == [filter EXCEPT !.flags = @ \cap CompatibleTypes(filter.operand)]

\* The conjunctions that keep a type for every filter, narrowed.
RECURSIVE NarrowAnds(_)
NarrowAnds(ands) ==
    IF ands = <<>> THEN <<>>
    ELSE LET narrowed == [k \in 1..Len(Head(ands)) |-> NarrowFilter(Head(ands)[k])]
         IN  IF \E k \in 1..Len(narrowed) : narrowed[k].flags = {}
             THEN NarrowAnds(Tail(ands))
             ELSE <<narrowed>> \o NarrowAnds(Tail(ands))

\* NarrowTypes::run
NarrowTypes_run(expr) == NormalForm(NarrowAnds(AndsOf(expr)))

ConvertFilter(filter) ==
    IF filter.operand.lt = "String" /\ filter.operand.s = <<"*">> /\ filter.op \in {"EQ", "NEQ"}
    THEN [filter EXCEPT !.op = IF filter.op = "EQ" THEN "EXISTS" ELSE "NEXISTS"]
    ELSE filter

\* ConvertToExists::run
ConvertToExists_run(expr) ==
    NormalForm([k \in 1..Len(AndsOf(expr)) |->
                   [j \in 1..Len(AndsOf(expr)[k]) |-> ConvertFilter(AndsOf(expr)[k][j])]])

\* preprocess_query of clp/ffi/ir_stream/ir_search_methods.cpp: the query
\* returned and the passes run.
core_preprocess_query(expr) ==
    IF expr = NullExpr THEN [expr |-> expr, ran |-> <<>>]
    ELSE LET standardized == OrOfAndForm_run(expr)
             narrowed == NarrowTypes_run(standardized)
         IN  IF standardized.type # "Empty"
             THEN [expr |-> standardized, ran |-> <<"OrOfAndForm">>]
             ELSE IF narrowed.type # "Empty"
             THEN [expr |-> narrowed, ran |-> <<"OrOfAndForm", "NarrowTypes">>]
             ELSE [expr |-> ConvertToExists_run(narrowed),
                   ran |-> <<"OrOfAndForm", "NarrowTypes", "ConvertToExists">>]

\* preprocess_query (part_010): the query returned and the passes run.
preprocess_query(expr) ==
    IF expr = NullExpr THEN [expr |-> expr, ran |-> <<>>]
    ELSE LET standardized == OrOfAndForm_run(expr)
             narrowed == NarrowTypes_run(standardized)
         IN  IF standardized.type = "Empty"
             THEN [expr |-> standardized, ran |-> <<"OrOfAndForm">>]
             ELSE IF narrowed.type = "Empty"
             THEN [expr |-> narrowed, ran |-> <<"OrOfAndForm", "NarrowTypes">>]
             ELSE [expr |-> ConvertToExists_run(narrowed),
                   ran |-> <<"OrOfAndForm", "NarrowTypes", "ConvertToExists">>]

\* The filters of the queries given to preprocess_query.
RawFilters ==
    {RawFilter("a", cAllTypes, "EQ", IntLiteral(1), FALSE),
     RawFilter("b", cAllTypes, "GT", IntLiteral(1), TRUE),
     RawFilter("a", cAllTypes, "EQ", StrLiteral(<<"*">>), FALSE),
     RawFilter("b", {"BooleanT"}, "EQ", IntLiteral(1), FALSE)}

\* And and Or nodes over two operands.
PairsOver(left, right) ==
    {[type |-> t, ops |-> <<x, y>>, inverted |-> i] :
        t \in {"And", "Or"}, x \in left, y \in right, i \in BOOLEAN}

\* The queries given to preprocess_query: a null pointer, an EmptyExpr, a
\* filter, an And or Or of two filters, of a filter and an EmptyExpr, or of an
\* And or Or and a filter.
RawQueries ==
    {NullExpr, EmptyExpr} \cup RawFilters
        \cup PairsOver(RawFilters, RawFilters)
        \cup {q \in PairsOver({EmptyExpr}, RawFilters) : ~q.inverted}
        \cup PairsOver(PairsOver(RawFilters, RawFilters), RawFilters)

\* The variables of the deserializer, which a call of a free function leaves alone.
deserializer_vars ==
    <<members, projection_resolutions, caller, unit, evaluated_value, calls, tag_read, ret,
      handler_returned, reader>>

\* No call of a free function is in progress.
InitPreprocess == InitWith(Config(NullExpr, <<>>))

\* The caller takes the result of a call of a free function.
FunctionResultTaken ==
    /\ fn_call # NoCall
    /\ fn_call' = NoCall
    /\ UNCHANGED <<deserializer_vars, record_iterator, buffered_writer>>

\* A call of preprocess_query (part_010).
PreprocessQuery ==
    /\ fn_call = NoCall
    /\ \E expr \in RawQueries :
           fn_call' = [fn |-> "preprocess_query", expr |-> expr,
                       result |-> preprocess_query(expr)]
    /\ UNCHANGED <<deserializer_vars, record_iterator, buffered_writer>>

\* A call of preprocess_query (clp/ffi/ir_stream/ir_search_methods.cpp).
CorePreprocessQuery ==
    /\ fn_call = NoCall
    /\ \E expr \in RawQueries :
           fn_call' = [fn |-> "core_preprocess_query", expr |-> expr,
                       result |-> core_preprocess_query(expr)]
    /\ UNCHANGED <<deserializer_vars, record_iterator, buffered_writer>>

NextPreprocess ==
    \/ PreprocessQuery
    \/ CorePreprocessQuery
    \/ FunctionResultTaken

SpecPreprocess == InitPreprocess /\ [][NextPreprocess]_vars

\* ------------------------------------------------------ Deserializer::create
\* The characters of a projection path: a key character, the separator, the
\* wildcard and the escape character.
PathChars == {"a", ".", "*", "\\"}

\* The projection paths given to create, as sequences of characters.
Paths == UNION {[1..n -> PathChars] : n \in 0..MaxPathLen}

\* How far create gets with the head of the stream: "ok", or the check that
\* fails.
StreamHeads ==
    {"ok", "encoding_type_error", "preamble_error", "metadata_type_not_json",
     "metadata_json_discarded", "version_not_a_string", "version_not_supported",
     "user_defined_metadata_not_object"}

\* The error get_encoding_type and deserialize_preamble give, converted by
\* ir_error_code_to_errc, when the reader has fewer bytes than they need.
truncation_error == "result_out_of_range"

\* Variant of preamble_error: an unsupported version counts as a corrupted
\* stream.
preamble_error_version_corrupted(head) ==
    CASE head \in {"encoding_type_error", "preamble_error"} -> truncation_error
      [] head \in {"metadata_type_not_json", "user_defined_metadata_not_object"}
             -> "protocol_not_supported"
      [] head \in {"metadata_json_discarded", "version_not_a_string",
                   "version_not_supported"} -> "protocol_error"

\* What create returns for a head of the stream it does not accept.
preamble_error(head) ==
    CASE head \in {"encoding_type_error", "preamble_error"} -> truncation_error
      [] head \in {"metadata_type_not_json", "version_not_supported",
                   "user_defined_metadata_not_object"} -> "protocol_not_supported"
      [] head \in {"metadata_json_discarded", "version_not_a_string"} -> "protocol_error"

\* tokenize_column_descriptor, the scan: cur_tok is the token being read,
\* escaped tells whether the last character was an unanswered escape
\* character.  The tokens keep their escape characters.
RECURSIVE tokenize_scan(_, _, _, _)
tokenize_scan(descriptor, cur_tok, tokens, escaped) ==
    IF descriptor = <<>>
    THEN IF escaped THEN [ok |-> FALSE, tokens |-> <<>>]
         ELSE IF cur_tok # <<>> THEN [ok |-> TRUE, tokens |-> Append(tokens, cur_tok)]
         ELSE [ok |-> tokens = <<>>, tokens |-> <<>>]
    ELSE LET c == Head(descriptor)
         IN  IF escaped
             THEN tokenize_scan(Tail(descriptor), cur_tok \o <<"\\", c>>, tokens, FALSE)
             ELSE IF c = "\\"
             THEN tokenize_scan(Tail(descriptor), cur_tok, tokens, TRUE)
             ELSE IF c = "."
             THEN IF cur_tok = <<>> THEN [ok |-> FALSE, tokens |-> <<>>]
                  ELSE tokenize_scan(Tail(descriptor), <<>>, Append(tokens, cur_tok), FALSE)
             ELSE tokenize_scan(Tail(descriptor), cur_tok \o <<c>>, tokens, FALSE)

\* clp_s::search::ast::tokenize_column_descriptor: whether the path splits
\* into tokens at its unescaped separators, and the tokens.  The empty path
\* has no tokens.
tokenize_column_descriptor(column) == tokenize_scan(column, <<>>, <<>>, FALSE)

\* A token without its escape characters; <<>> when it escapes a character
\* that has no escaped form.
RECURSIVE unescape(_)
unescape(token) ==
    IF token = <<>> THEN <<>>
    ELSE IF Head(token) # "\\" THEN <<Head(token)>> \o unescape(Tail(token))
    ELSE <<token[2]>> \o unescape(Tail(Tail(token)))

has_invalid_escape(token) ==
    \E k \in 1..(Len(token) - 1) :
        /\ token[k] = "\\" /\ token[k + 1] = "a"
        /\ (k = 1 \/ token[k - 1] # "\\")

\* ColumnDescriptor::create_from_escaped_tokens: it throws for a token with
\* an invalid escape; an unescaped "*" is the wildcard token.
create_from_escaped_tokens(descriptor_tokens) ==
    IF \E k \in 1..Len(descriptor_tokens) : has_invalid_escape(descriptor_tokens[k])
    THEN [threw |-> TRUE, descriptors |-> <<>>]
    ELSE [threw |-> FALSE,
          descriptors |-> [k \in 1..Len(descriptor_tokens) |->
                              [token |-> unescape(descriptor_tokens[k]),
                               wildcard |-> descriptor_tokens[k] = <<"*">>]]]

\* ColumnDescriptor::check_and_set_unresolved_descriptor_flag
is_unresolved_descriptor(descriptors) ==
    \E k \in 1..Len(descriptors) : descriptors[k].wildcard

\* Variant of validate_projection: a path is not compared with the paths
\* before it.
RECURSIVE validate_projection_allows_duplicates(_, _, _)
validate_projection_allows_duplicates(projection, unique_projected_columns, projected_column_to_original_key) ==
    IF projection = <<>>
    THEN [ok |-> TRUE, columns |-> projected_column_to_original_key]
    ELSE LET column == Head(projection)
             tokenized == tokenize_column_descriptor(column)
             column_descriptor == create_from_escaped_tokens(tokenized.tokens)
             invalid_argument == [ok |-> FALSE, columns |-> <<>>]
         IN  IF ~tokenized.ok THEN invalid_argument
             ELSE IF column_descriptor.threw THEN invalid_argument
             ELSE IF \/ is_unresolved_descriptor(column_descriptor.descriptors)
                     \/ column_descriptor.descriptors = <<>>
             THEN invalid_argument
             ELSE validate_projection_allows_duplicates(
                      Tail(projection), unique_projected_columns,
                      Append(projected_column_to_original_key,
                             [descriptor |-> column_descriptor.descriptors,
                              key |-> column]))

\* Deserializer::create, the loop over the projection: whether every path
\* was accepted, and the descriptors with their paths.
RECURSIVE validate_projection(_, _, _)
validate_projection(projection, unique_projected_columns, projected_column_to_original_key) ==
    IF projection = <<>>
    THEN [ok |-> TRUE, columns |-> projected_column_to_original_key]
    ELSE LET column == Head(projection)
             tokenized == tokenize_column_descriptor(column)
             column_descriptor == create_from_escaped_tokens(tokenized.tokens)
             invalid_argument == [ok |-> FALSE, columns |-> <<>>]
         IN  IF column \in unique_projected_columns THEN invalid_argument
             ELSE IF ~tokenized.ok THEN invalid_argument
             ELSE IF column_descriptor.threw THEN invalid_argument
             ELSE IF \/ is_unresolved_descriptor(column_descriptor.descriptors)
                     \/ column_descriptor.descriptors = <<>>
             THEN invalid_argument
             ELSE validate_projection(
                      Tail(projection), unique_projected_columns \cup {column},
                      Append(projected_column_to_original_key,
                             [descriptor |-> column_descriptor.descriptors,
                              key |-> column]))

\* Deserializer::create: the value returned and, when it is a deserializer,
\* the members it is constructed with.
create(head, query, projection) ==
    LET validated == validate_projection(projection, {}, <<>>)
    IN  IF head # "ok" THEN [ret |-> preamble_error(head), constructed |-> FALSE]
        ELSE IF ~validated.ok THEN [ret |-> "invalid_argument", constructed |-> FALSE]
        ELSE [ret |-> "Deserializer", constructed |-> TRUE,
              m_query |-> preprocess_query(query).expr,
              m_projected_column_to_original_key |-> validated.columns]

\* The queries given to create.
CreateQueries == {NullExpr, RawFilter("a", cAllTypes, "EQ", IntLiteral(1), FALSE)}

\* No call of create is in progress.
InitCreate == InitWith(Config(NullExpr, <<>>))

\* A call of Deserializer::create.
Create ==
    /\ fn_call = NoCall
    /\ \E head \in StreamHeads, query \in CreateQueries, n \in 0..MaxProjection :
         \E projection \in [1..n -> Paths] :
           fn_call' = [fn |-> "create", head |-> head, query |-> query,
                       projection |-> projection,
                       result |-> create(head, query, projection)]
    /\ UNCHANGED <<deserializer_vars, record_iterator, buffered_writer>>

NextCreate ==
    \/ Create
    \/ FunctionResultTaken

SpecCreate == InitCreate /\ [][NextCreate]_vars

\* ------------------------------------------------------------------ evaluate
\* The operands of the filters given to evaluate.
EvaluateOperands ==
    {IntLiteral(1), IntLiteral(2), StrLiteral(<<"h">>), StrLiteral(<<"H">>),
     StrLiteral(<<"*">>), BoolLiteral(TRUE)}

\* The literal types and values given to evaluate: the literal type is the
\* one node_and_value_to_literal_type gives for the value.
TypedValues ==
    ({"IntegerT"} \X {IntValue(1), IntValue(2)})
        \cup ({"FloatT"} \X {FloatValue(1), FloatValue(2)})
        \cup ({"BooleanT"} \X {BoolValue(TRUE), BoolValue(FALSE)})
        \cup ({"VarStringT"} \X {StrValue(<<"h">>), StrValue(<<"H">>), StrValue(<<"w">>)})
        \cup ({"ClpStringT"} \X {EncValue(8, <<"h", " ", "#">>, <<(<<"w">>)>>),
                                 EncValue(4, <<"H">>, <<>>)})
        \cup ({"ArrayT"} \X {StrValue(<<"h">>)})
        \cup ({"NullT"} \X {NullValue})
        \cup ({"EpochDateT"} \X {IntValue(1)})
        \cup ({"UnknownT"} \X {NoValue})

\* No call of evaluate is in progress.
InitEvaluate == InitWith(Config(NullExpr, <<>>))

\* A call of evaluate (part_010).  case_sensitive_match is the flag of the
\* declaration in the header, which this definition does not take.
Evaluate ==
    /\ fn_call = NoCall
    /\ \E op \in FilterOperations, operand \in EvaluateOperands, typed \in TypedValues,
          case_sensitive_match \in BOOLEAN :
           fn_call' = [fn |-> "evaluate", op |-> op, operand |-> operand,
                       literal_type |-> typed[1], value |-> typed[2],
                       case_sensitive_match |-> case_sensitive_match,
                       result |-> evaluate_filter_value(
                                      FilterExpr("ab", op, operand, FALSE), typed[1],
                                      typed[2])]
    /\ UNCHANGED <<deserializer_vars, record_iterator, buffered_writer>>

\* A call of evaluate (clp/ffi/ir_stream/ir_search_methods.cpp).
CoreEvaluate ==
    /\ fn_call = NoCall
    /\ \E op \in FilterOperations, operand \in EvaluateOperands, typed \in TypedValues,
          case_sensitive_match \in BOOLEAN :
           fn_call' = [fn |-> "core_evaluate", op |-> op, operand |-> operand,
                       literal_type |-> typed[1], value |-> typed[2],
                       case_sensitive_match |-> case_sensitive_match,
                       result |-> core_evaluate(
                                      FilterExpr("ab", op, operand, FALSE), typed[1],
                                      typed[2])]
    /\ UNCHANGED <<deserializer_vars, record_iterator, buffered_writer>>

NextEvaluate ==
    \/ Evaluate
    \/ CoreEvaluate
    \/ FunctionResultTaken

SpecEvaluate == InitEvaluate /\ [][NextEvaluate]_vars

\* ------------------------------------------------------------------ compress
\* The s3 object URLs the compress task is given.
S3Urls == {"p", "q", "r"}

\* Lists of distinct URLs.
S3PathLists ==
    UNION {{l \in [1..n -> S3Urls] : \A i, j \in 1..n : l[i] = l[j] => i = j} :
               n \in 0..MaxInputPaths}

\* Where an exception is thrown during the ingestion.
IngestionExceptions == {"none", "create_directory", "store"}

\* The elements of a list at the positions of a set, in order.
RECURSIVE PathsAt(_, _, _)
PathsAt(paths, kept, k) ==
    IF k > Len(paths) THEN <<>>
    ELSE (IF kept[k] THEN <<paths[k]>> ELSE <<>>) \o PathsAt(paths, kept, k + 1)

\* JsonParser::parse_from_ir: whether every input path was compressed.
parse_from_ir(compressed) == \A k \in DOMAIN compressed : compressed[k]

\* JsonParser::get_successfully_compressed_paths
get_successfully_compressed_paths(s3_paths, compressed) == PathsAt(s3_paths, compressed, 1)

\* The compress task: the list it returns.  compressed tells for each input
\* path whether the parser compressed it, thrown where an exception is
\* thrown, upload_ok what upload_all_files_in_directory returns.
compress(s3_paths, compressed, thrown, upload_ok) ==
    LET successful_paths ==
            IF ~parse_from_ir(compressed)
            THEN get_successfully_compressed_paths(s3_paths, compressed)
            ELSE <<>>
    IN  IF s3_paths = <<>> THEN <<>>
        ELSE IF thrown = "create_directory" THEN <<>>
        ELSE IF ~parse_from_ir(compressed) /\ successful_paths = <<>> THEN <<>>
        ELSE IF thrown = "store" THEN <<>>
        ELSE IF ~upload_ok THEN <<>>
        ELSE successful_paths

\* No call of compress is in progress.
InitCompress == InitWith(Config(NullExpr, <<>>))

\* A run of the compress task.
Compress ==
    /\ fn_call = NoCall
    /\ \E s3_paths \in S3PathLists, thrown \in IngestionExceptions, upload_ok \in BOOLEAN :
         \E compressed \in [1..Len(s3_paths) -> BOOLEAN] :
           fn_call' = [fn |-> "compress", s3_paths |-> s3_paths, compressed |-> compressed,
                       thrown |-> thrown, upload_ok |-> upload_ok,
                       result |-> compress(s3_paths, compressed, thrown, upload_ok)]
    /\ UNCHANGED <<deserializer_vars, record_iterator, buffered_writer>>

NextCompress ==
    \/ Compress
    \/ FunctionResultTaken

SpecCompress == InitCompress /\ [][NextCompress]_vars

\* ------------------------------------------- DeserializedRecordIterator
\* The records of a serialized array.
JsonRecords == {"r1", "r2", "r3"}

JsonArrays == UNION {[1..n -> JsonRecords] : n \in 0..MaxRecords}

\* What *m_it gives in the constructor: the first record, or for an empty
\* array, whose begin() is end(), any record or no record at all.
first_record(jarray) ==
    IF jarray # <<>> THEN {jarray[1]} ELSE JsonRecords \cup {"invalid"}

\* RecordIterator::get of the iterator: the record m_record points to.
iterator_get == record_iterator.m_cur_json_record

\* RecordIterator::done of the iterator.  m_it counts the elements before the
\* iterator's position.
iterator_done == record_iterator.m_it = Len(record_iterator.m_jarray)

\* No iterator exists.
InitIterator == InitWith(Config(NullExpr, <<>>))

\* DeserializedRecordIterator::DeserializedRecordIterator
ConstructIterator ==
    /\ record_iterator = NoIterator
    /\ \E jarray \in JsonArrays, record \in JsonRecords \cup {"invalid"} :
           /\ record \in first_record(jarray)
           /\ record_iterator' = [state |-> "constructed", m_jarray |-> jarray, m_it |-> 0,
                                  m_cur_json_record |-> record]
    /\ UNCHANGED <<deserializer_vars, fn_call, buffered_writer>>

\* DeserializedRecordIterator::next, called while done() is false.
IteratorNext ==
    /\ record_iterator # NoIterator
    /\ ~iterator_done
    /\ record_iterator' = [record_iterator EXCEPT !.m_it = @ + 1]
    /\ UNCHANGED <<deserializer_vars, fn_call, buffered_writer>>

\* The iterator is destroyed.
DestroyIterator ==
    /\ record_iterator # NoIterator
    /\ record_iterator' = NoIterator
    /\ UNCHANGED <<deserializer_vars, fn_call, buffered_writer>>

NextIterator ==
    \/ ConstructIterator
    \/ IteratorNext
    \/ DestroyIterator

SpecIterator == InitIterator /\ [][NextIterator]_vars

\* ------------------------------------------------ Deserializer::Deserializer
\* The columns of the queries a deserializer is constructed with.
ConstructColumns == {"ab", "awb", "wawb", "w", "aw", "xb", "ww"}

ConstructFilters ==
    {FilterExpr(col, "EQ", IntLiteral(1), FALSE) : col \in ConstructColumns}

ConstructQueries ==
    {NullExpr} \cup ConstructFilters
        \cup {AndExpr(<<f, g>>, FALSE) : f \in ConstructFilters, g \in ConstructFilters}

\* The projected columns a deserializer is constructed with: no column twice.
ConstructProjections ==
    {projection \in UNION {[1..n -> {"p_ab", "p_a", "p_xb"}] : n \in 0..MaxProjection} : \A j, k \in DOMAIN projection : projection[j] = projection[k] => j = k}

InitConstruct == InitWith(Config(NullExpr, <<>>))

\* The constructor: the members it sets and the maps as
\* initialize_partial_resolutions leaves them.
Construct ==
    /\ fn_call = NoCall
    /\ \E query \in ConstructQueries, projection \in ConstructProjections :
         fn_call' = [fn |-> "Deserializer",
                     m_query |-> query,
                     m_projected_column_to_original_key |-> projection,
                     m_partial_resolutions |->
                         initialize_partial_resolutions(query, projection),
                     m_resolutions |-> EmptyMap]
    /\ UNCHANGED <<deserializer_vars, record_iterator, buffered_writer>>

NextConstruct ==
    \/ Construct
    \/ FunctionResultTaken

SpecConstruct == InitConstruct /\ [][NextConstruct]_vars

\* ---------------------------------------------------------- ColumnDescriptor
\* The token lists a ColumnDescriptor is built from.
DescriptorLists == UNION {[1..n -> {"a", "b", "*"}] : n \in 1..MaxTokens}

InitColumn == InitWith(Config(NullExpr, <<>>))

\* ColumnDescriptor::create(DescriptorList const&)
CreateColumnDescriptor ==
    /\ fn_call = NoCall
    /\ \E descriptors \in DescriptorLists :
         fn_call' = [fn |-> "ColumnDescriptor", descriptors |-> descriptors,
                     result |-> ColumnDescriptor(FALSE, descriptors, cAllTypes)]
    /\ UNCHANGED <<deserializer_vars, record_iterator, buffered_writer>>

NextColumn ==
    \/ CreateColumnDescriptor
    \/ FunctionResultTaken

SpecColumn == InitColumn /\ [][NextColumn]_vars

\* ------------------------------------------------ reducer::BufferedSocketWriter
\* The bytes written are told apart by their value.
Bytes == {"x", "y"}

\* The data of one write call.
WriteData == UNION {[1..n -> Bytes] : n \in 0..MaxWriteSize}

\* The try_send of a call that fails, counted from 1; 0 when none fails.
FailingSends == 0..3

\* The do-while loop of write, from the top of an iteration: the buffer is
\* filled up, sent and cleared, until what is left of the data fits.  A
\* failing try_send ends the call with the buffer as it was sent.
RECURSIVE write_loop(_, _, _, _, _)
write_loop(buffer, socket, data, capacity, failing_send) ==
    LET space_left == capacity - Len(buffer)
        filled == IF space_left > 0 THEN buffer \o SubSeq(data, 1, space_left) ELSE buffer
        rest == IF space_left > 0 THEN SubSeq(data, space_left + 1, Len(data)) ELSE data
    IN  IF failing_send = 1
        THEN [ok |-> FALSE, m_buffer |-> filled, socket |-> socket]
        ELSE IF Len(rest) > capacity
        THEN write_loop(<<>>, socket \o filled, rest, capacity,
                        IF failing_send = 0 THEN 0 ELSE failing_send - 1)
        ELSE [ok |-> TRUE, m_buffer |-> rest, socket |-> socket \o filled]

\* Variant of write: data that does not fit is stored whole after one send of
\* the buffer.
write_sends_once(writer, data, failing_send) ==
    IF Len(writer.m_buffer) + Len(data) <= writer.capacity
    THEN [ok |-> TRUE, m_buffer |-> writer.m_buffer \o data, socket |-> writer.socket]
    ELSE IF failing_send = 1
    THEN [ok |-> FALSE, m_buffer |-> writer.m_buffer, socket |-> writer.socket]
    ELSE [ok |-> TRUE, m_buffer |-> data, socket |-> writer.socket \o writer.m_buffer]

\* BufferedSocketWriter::write: what it returns, the buffer it leaves and the
\* bytes the socket has been sent.
write(writer, data, failing_send) ==
    IF Len(writer.m_buffer) + Len(data) <= writer.capacity
    THEN [ok |-> TRUE, m_buffer |-> writer.m_buffer \o data, socket |-> writer.socket]
    ELSE write_loop(writer.m_buffer, writer.socket, data, writer.capacity, failing_send)

\* BufferedSocketWriter::flush: an empty buffer is not sent; a buffer with
\* bytes is sent and cleared whether or not the send succeeds.
flush(writer, failing_send) ==
    IF writer.m_buffer = <<>>
    THEN [ok |-> TRUE, m_buffer |-> <<>>, socket |-> writer.socket]
    ELSE [ok |-> failing_send # 1, m_buffer |-> <<>>,
          socket |-> IF failing_send = 1 THEN writer.socket
                     ELSE writer.socket \o writer.m_buffer]

InitWriter == InitWith(Config(NullExpr, <<>>))

\* BufferedSocketWriter::BufferedSocketWriter: a buffer of the given, non-zero
\* capacity.  written holds the data of all write calls, send_failed whether
\* a try_send has failed, last_call and returned the last call and its result.
ConstructWriter ==
    /\ buffered_writer = NoWriter
    /\ \E capacity \in 1..MaxCapacity :
           buffered_writer' =
               [state |-> "open", m_buffer |-> <<>>, capacity |-> capacity,
                socket |-> <<>>, written |-> <<>>, send_failed |-> FALSE,
                last_call |-> "none", returned |-> TRUE]
    /\ UNCHANGED <<deserializer_vars, fn_call, record_iterator>>

WriterWrite ==
    /\ buffered_writer # NoWriter
    /\ \E data \in WriteData, failing_send \in FailingSends :
           LET result == write(buffered_writer, data, failing_send)
           IN  /\ Len(buffered_writer.written) + Len(data) <= MaxWritten
               /\ buffered_writer' =
                      [buffered_writer EXCEPT
                           !.m_buffer = result.m_buffer,
                           !.socket = result.socket,
                           !.written = @ \o data,
                           !.send_failed = @ \/ ~result.ok,
                           !.last_call = "write",
                           !.returned = result.ok]
    /\ UNCHANGED <<deserializer_vars, fn_call, record_iterator>>

WriterFlush ==
    /\ buffered_writer # NoWriter
    /\ \E failing_send \in FailingSends :
           LET result == flush(buffered_writer, failing_send)
           IN  buffered_writer' =
                   [buffered_writer EXCEPT
                        !.m_buffer = result.m_buffer,
                        !.socket = result.socket,
                        !.send_failed = @ \/ ~result.ok,
                        !.last_call = "flush",
                        !.returned = result.ok]
    /\ UNCHANGED <<deserializer_vars, fn_call, record_iterator>>

NextWriter ==
    \/ ConstructWriter
    \/ WriterWrite
    \/ WriterFlush

SpecWriter == InitWriter /\ [][NextWriter]_vars

\* --------------------------------------------------------------- utf8_utils
\* Bytes are values of uint8_t; a string is a sequence of bytes.
uint8(x) == x % 256

cOneByteUtf8CharCodePointLowerBound == 0
cOneByteUtf8CharCodePointUpperBound == 127
cTwoByteUtf8CharCodePointLowerBound == 128
cTwoByteUtf8CharCodePointUpperBound == 2047
cThreeByteUtf8CharCodePointLowerBound == 2048
cThreeByteUtf8CharCodePointUpperBound == 65535
cFourByteUtf8CharCodePointLowerBound == 65536
cFourByteUtf8CharCodePointUpperBound == 1114111

\* Headers: 0b110x_xxxx, 0b1110_xxxx, 0b1111_0xxx and 0b10xx_xxxx.
cTwoByteUtf8CharHeader == 192
cThreeByteUtf8CharHeader == 224
cFourByteUtf8CharHeader == 240
cUtf8ContinuationByteHeader == 128
cUtf8NumContinuationByteCodePointBits == 6

\* The number of values of the code point bits of a lead byte, that is
\* (~header mask) + 1, by the number of continuation bytes.
lead_byte_code_point_values(num_continuation_bytes) ==
    CASE num_continuation_bytes = 1 -> 32
      [] num_continuation_bytes = 2 -> 16
      [] OTHER -> 8

lead_byte_header(num_continuation_bytes) ==
    CASE num_continuation_bytes = 1 -> cTwoByteUtf8CharHeader
      [] num_continuation_bytes = 2 -> cThreeByteUtf8CharHeader
      [] OTHER -> cFourByteUtf8CharHeader

\* generate_utf8_byte_sequence with `code_point >>= 6` left out of the loop.
generate_utf8_byte_sequence_no_shift(code_point, num_continuation_bytes) ==
    LET continuation == cUtf8ContinuationByteHeader + (uint8(code_point) % 64)
        lead == lead_byte_header(num_continuation_bytes)
                + (uint8(code_point)
                   % lead_byte_code_point_values(num_continuation_bytes))
    IN  <<lead>> \o [i \in 1..num_continuation_bytes |-> continuation]

\* generate_utf8_byte_sequence: the continuation bytes are pushed from the
\* least significant six bits upwards, the lead byte takes what is left
\* (cut to the bits the header leaves free), and the bytes are reversed.
generate_utf8_byte_sequence(code_point, num_continuation_bytes) ==
    LET shifted(k) ==
            code_point \div ((2 ^ cUtf8NumContinuationByteCodePointBits) ^ k)
        continuation(k) ==
            cUtf8ContinuationByteHeader + (uint8(shifted(k)) % 64)
        lead == lead_byte_header(num_continuation_bytes)
                + (uint8(shifted(num_continuation_bytes))
                   % lead_byte_code_point_values(num_continuation_bytes))
    IN  <<lead>> \o [i \in 1..num_continuation_bytes |->
                        continuation(num_continuation_bytes - i)]

is_ascii_char(byte) == byte <= cOneByteUtf8CharCodePointUpperBound

is_valid_utf8_continuation_byte(byte) ==
    byte \div 64 = cUtf8ContinuationByteHeader \div 64

\* (code_point << 6) + the six low bits of the byte. A lead byte leaves at
\* most five bits and at most three continuation bytes follow it, so the
\* value stays below 2^23 and the width of uint32_t is never reached.
update_code_point(code_point, continuation_byte) ==
    code_point * (2 ^ cUtf8NumContinuationByteCodePointBits)
    + (continuation_byte % 64)

NoLead == [valid |-> FALSE]

\* The state the validator keeps between bytes.
LeadState(num, code_point, lower, upper) ==
    [valid |-> TRUE, num_continuation_bytes_to_validate |-> num,
     code_point |-> code_point,
     code_point_lower_bound |-> lower, code_point_upper_bound |-> upper]

parse_and_validate_lead_byte_and_set_code_point(byte) ==
    CASE byte \div 32 = cTwoByteUtf8CharHeader \div 32 ->
            LeadState(1, byte % 32, cTwoByteUtf8CharCodePointLowerBound,
                      cTwoByteUtf8CharCodePointUpperBound)
      [] byte \div 16 = cThreeByteUtf8CharHeader \div 16 ->
            LeadState(2, byte % 16, cThreeByteUtf8CharCodePointLowerBound,
                      cThreeByteUtf8CharCodePointUpperBound)
      [] byte \div 8 = cFourByteUtf8CharHeader \div 8 ->
            LeadState(3, byte % 8, cFourByteUtf8CharCodePointLowerBound,
                      cFourByteUtf8CharCodePointUpperBound)
      [] OTHER -> NoLead

\* validate_utf8_string from the byte at position i on.
RECURSIVE validate_utf8_string_from(_, _, _)
validate_utf8_string_from(src, i, st) ==
    IF i > Len(src) THEN st.num_continuation_bytes_to_validate = 0
    ELSE IF st.num_continuation_bytes_to_validate = 0
    THEN IF is_ascii_char(src[i])
         THEN validate_utf8_string_from(src, i + 1, st)
         ELSE LET lead ==
                      parse_and_validate_lead_byte_and_set_code_point(src[i])
              IN  /\ lead.valid
                  /\ validate_utf8_string_from(src, i + 1, lead)
    ELSE /\ is_valid_utf8_continuation_byte(src[i])
         /\ LET code_point == update_code_point(st.code_point, src[i])
                num == st.num_continuation_bytes_to_validate - 1
                next == [st EXCEPT !.code_point = code_point,
                                   !.num_continuation_bytes_to_validate = num]
            IN  /\ num = 0 =>
                        /\ st.code_point_lower_bound <= code_point
                        /\ code_point <= st.code_point_upper_bound
                /\ validate_utf8_string_from(src, i + 1, next)

validate_utf8_string(src) ==
    validate_utf8_string_from(src, 1, LeadState(0, 0, 0, 0))

is_utf8_encoded(str) == validate_utf8_string(str)

\* The hexadecimal digit of a value below 16, as a byte.
hex_digit(v) == IF v < 10 THEN 48 + v ELSE 97 + (v - 10)

\* What the escape handler writes for an ASCII byte.
escape_handler(byte) ==
    CASE byte = 8 -> <<92, 98>>
      [] byte = 9 -> <<92, 116>>
      [] byte = 10 -> <<92, 110>>
      [] byte = 12 -> <<92, 102>>
      [] byte = 13 -> <<92, 114>>
      [] byte = 92 -> <<92, 92>>
      [] byte = 34 -> <<92, 34>>
      [] byte < 32 ->
            <<92, 117, 48, 48, hex_digit(byte \div 16), hex_digit(byte % 16)>>
      [] OTHER -> <<byte>>

RECURSIVE escaped_from(_, _)
escaped_from(src, i) ==
    IF i > Len(src) THEN <<>>
    ELSE (IF is_ascii_char(src[i]) THEN escape_handler(src[i]) ELSE <<src[i]>>)
         \o escaped_from(src, i + 1)

nullopt == [has_value |-> FALSE]

validate_and_escape_utf8_string(raw) ==
    IF validate_utf8_string(raw)
    THEN [has_value |-> TRUE, value |-> escaped_from(raw, 1)]
    ELSE nullopt

\* The code points the checks run over: the ends of the four ranges, their
\* neighbours, some characters the escaper touches and the largest value of
\* 21 bits.
CodePoints ==
    {0, 1, 10, 31, 34, 65, 66, 92, 127, 128, 129, 162, 2047, 2048, 20013,
     55296, 65535, 65536, 131087, 1114111, 1114112, 2097151}

\* "Valid" as bytes.
ValidText == <<86, 97, 108, 105, 100>>

cInvalidLeadByte == 255
cInvalidContinuationByteMask == 64

\* A truncated sequence: the first `len` bytes of the sequence.
incomplete_byte_sequence(seq, len) == SubSeq(seq, 1, len)

with_invalid_lead_byte(seq) == [seq EXCEPT ![1] = cInvalidLeadByte]

\* test_str.at(idx) |= 0x40 (idx counts from 0 in the code, from 1 here).
with_invalid_continuation_byte(seq, idx) ==
    [seq EXCEPT ![idx] =
        IF (seq[idx] \div cInvalidContinuationByteMask) % 2 = 1
        THEN seq[idx] ELSE seq[idx] + cInvalidContinuationByteMask]

\* The strings the test cases build from a code point.
TestStrings(code_point) ==
    LET single == IF code_point <= cOneByteUtf8CharCodePointUpperBound
                  THEN {[kind |-> "single", num_continuation_bytes |-> 0,
                         str |-> <<code_point>>]}
                  ELSE {}
        sequences ==
            {[kind |-> "sequence", num_continuation_bytes |-> n,
              str |-> generate_utf8_byte_sequence(code_point, n)] : n \in 1..3}
        derived(s) ==
            {[kind |-> "incomplete_after_valid",
              num_continuation_bytes |-> s.num_continuation_bytes,
              str |-> ValidText \o incomplete_byte_sequence(s.str, len)] :
                len \in 1..(Len(s.str) - 1)}
            \cup
            {[kind |-> "incomplete_before_valid",
              num_continuation_bytes |-> s.num_continuation_bytes,
              str |-> incomplete_byte_sequence(s.str, len) \o ValidText] :
                len \in 1..(Len(s.str) - 1)}
            \cup
            {[kind |-> "invalid_lead_byte",
              num_continuation_bytes |-> s.num_continuation_bytes,
              str |-> with_invalid_lead_byte(s.str)]}
            \cup
            {[kind |-> "invalid_continuation_byte",
              num_continuation_bytes |-> s.num_continuation_bytes,
              str |-> with_invalid_continuation_byte(s.str, idx)] :
                idx \in 2..Len(s.str)}
    IN  single \cup sequences \cup UNION {derived(s) : s \in sequences}

InitUtf8 == InitWith(Config(NullExpr, <<>>))

\* One round of a test case: is_utf8_encoded and
\* validate_and_escape_utf8_string on the same string.
IsUtf8Encoded ==
    /\ fn_call = NoCall
    /\ \E code_point \in CodePoints :
         \E t \in TestStrings(code_point) :
            fn_call' = [fn |-> "is_utf8_encoded",
                        code_point |-> code_point,
                        kind |-> t.kind,
                        num_continuation_bytes |-> t.num_continuation_bytes,
                        str |-> t.str,
                        result |-> is_utf8_encoded(t.str),
                        escaped |-> validate_and_escape_utf8_string(t.str)]
    /\ UNCHANGED <<deserializer_vars, record_iterator, buffered_writer>>

NextUtf8 ==
    \/ IsUtf8Encoded
    \/ FunctionResultTaken

SpecUtf8 == InitUtf8 /\ [][NextUtf8]_vars

\* ------------------------------------------------------ observation helpers
\* The last call was a LogEvent unit whose pairs were decoded.
LogEventReturned ==
    caller = "returned" /\ unit.type = "LogEvent" /\ ret # "decoding_error"

\* The last call inserted a schema tree node.
InsertionReturned ==
    /\ caller = "returned" /\ unit.type = "SchemaTreeNodeInsertion"
    /\ ret \notin {"decoding_error", "protocol_error"}

\* The id of the node the last call inserted.
InsertedNodeId == Len(SchemaTreeOf(unit.is_auto)) - 1

HandlerCalled(name) == \E k \in 1..Len(calls) : calls[k].cb = name

\* How often x is an element of seq.
Occurrences(seq, x) == Cardinality({k \in 1..Len(seq) : seq[k] = x})

\* The final resolutions of a column, empty when the map has no entry.
ResolutionsOf(col) == IF col \in DOMAIN m_resolutions THEN m_resolutions[col] ELSE <<>>

\* The results of the children of the query's root on the pairs.
ChildResults(node_id_value_pairs) ==
    [k \in 1..Len(m_query.ops) |-> evaluate_recursive(m_query.ops[k], node_id_value_pairs)]

SwapIfInverted(value, inverted) ==
    IF ~inverted \/ value = "Prune" THEN value
    ELSE IF value = "True" THEN "False" ELSE "True"

\* The columns of the filters of an expression.
RECURSIVE ColumnsOf(_)
ColumnsOf(expr) ==
    IF expr.type \in {"And", "Or"}
    THEN UNION {ColumnsOf(expr.ops[k]) : k \in 1..Len(expr.ops)}
    ELSE IF expr.type = "Filter" THEN {expr.col} ELSE {}

\* ---------------------------------------------------------------------- C1
\* C1: once the end of the stream was accepted (m_is_complete is set), every
\* call of deserialize_next_ir_unit returns operation_not_permitted, reads no
\* tag and makes no handler callback, and m_is_complete stays set.
C1_AfterEndOfStream ==
    [][m_is_complete =>
          /\ m_is_complete'
          /\ caller = "ready" =>
                 /\ ret' = "operation_not_permitted"
                 /\ tag_read' = FALSE
                 /\ calls' = <<>>]_vars

C1_Witness ==
    /\ m_is_complete
    /\ caller = "returned"
    /\ ret = "operation_not_permitted"
    /\ InsertedNodes > 0

AndValue(results, inverted) ==
    IF \E k \in 1..Len(results) : results[k] = "Prune" THEN "Prune"
    ELSE IF \E k \in 1..Len(results) : results[k] = "False"
    THEN SwapIfInverted("False", inverted)
    ELSE SwapIfInverted("True", inverted)

\* C3: an And node with a Prune child evaluates to Prune whatever the other
\* children and its inverted flag; otherwise to False if a child is False and
\* to True if all are True, True and False swapped when it is inverted.
C3_AndPruneDominates ==
    (LogEventReturned /\ m_query.type = "And") =>
        evaluated_value = AndValue(ChildResults(unit.pairs), m_query.inverted)

\* ---------------------------------------------------------------------- C4
\* The value of an Or node as the claim gives it.
OrValue(results, inverted) ==
    IF \E k \in 1..Len(results) : results[k] = "True"
    THEN SwapIfInverted("True", inverted)
    ELSE IF \A k \in 1..Len(results) : results[k] = "Prune" THEN "Prune"
    ELSE SwapIfInverted("False", inverted)

\* C4: an Or node evaluates to True if a child is True, else to Prune if every
\* child is Prune, else to False; the inverted flag swaps True and False and
\* leaves Prune.
C4_OrSemantics ==
    (LogEventReturned /\ m_query.type = "Or") =>
        evaluated_value = OrValue(ChildResults(unit.pairs), m_query.inverted)

\* An inverted Or whose children are False and Prune: True, not Prune.
C4_Witness ==
    /\ LogEventReturned /\ m_query.type = "Or" /\ m_query.inverted
    /\ ChildResults(unit.pairs) = <<"False", "Prune">>
    /\ evaluated_value = "True"

\* ---------------------------------------------------------------------- C5
\* The permutations of 1..n.
OperandOrders(n) ==
    {f \in [1..n -> 1..n] : \A i, j \in 1..n : f[i] = f[j] => i = j}

Permuted(expr, f) ==
    [expr EXCEPT !.ops = [k \in 1..Len(expr.ops) |-> expr.ops[f[k]]]]

\* C5: permuting the operands of an And node or of an Or node does not change
\* the value it evaluates to, on every record.
C5_OperandOrderIndependent ==
    (LogEventReturned /\ m_query.type \in {"And", "Or"}) =>
        \A f \in OperandOrders(Len(m_query.ops)) :
            evaluate_recursive(Permuted(m_query, f), unit.pairs) = evaluated_value

\* ---------------------------------------------------------------------- C6
\* The first final resolution of a column that the pairs carry, 0 when there
\* is none.
FirstCarried(col, pairs) ==
    LET res == ResolutionsOf(col)
        carried == {k \in 1..Len(res) : res[k] \in DOMAIN pairs}
    IN  IF carried = {} THEN 0
        ELSE res[CHOOSE k \in carried : \A j \in carried : k <= j]

\* The literal type of the value the pairs carry at a node.
CarriedLiteralType(is_auto, pairs, id) ==
    node_and_value_to_literal_type(get_node(SchemaTreeOf(is_auto), id).type, pairs[id])

\* C6 as stated: a filter on a column that is not a pure wildcard is Prune when
\* no final resolution of the column is a key of the record's pairs in the
\* column's namespace, and otherwise the filter evaluator's True/False answer,
\* swapped when the filter is inverted.
C6_FilterPruneOnlyWhenUnresolved ==
    (LogEventReturned /\ m_query.type = "Filter" /\ ~is_pure_wildcard(m_query.col)) =>
        LET is_auto == is_autogen_namespace(m_query.col)
            pairs == PairsOf(unit.pairs, is_auto)
            id == FirstCarried(m_query.col, pairs)
        IN  evaluated_value =
                IF id = 0 THEN "Prune"
                ELSE SwapIfInverted(
                         evaluate_filter_value(
                             m_query, CarriedLiteralType(is_auto, pairs, id), pairs[id]),
                         m_query.inverted)

\* C6, amended: the filter is Prune as well when the literal type of the value
\* at the first carried resolution is not one of the column's types; in every
\* other case it is the filter evaluator's answer on that value, swapped when
\* the filter is inverted.  Inversion leaves Prune.
C6_FilterPruneOrEvaluator ==
    (LogEventReturned /\ m_query.type = "Filter" /\ ~is_pure_wildcard(m_query.col)) =>
        LET is_auto == is_autogen_namespace(m_query.col)
            pairs == PairsOf(unit.pairs, is_auto)
            id == FirstCarried(m_query.col, pairs)
        IN  evaluated_value =
                IF id = 0 THEN "Prune"
                ELSE IF CarriedLiteralType(is_auto, pairs, id)
                            \notin ColumnTable[m_query.col].flags
                THEN "Prune"
                ELSE SwapIfInverted(
                         evaluate_filter_value(
                             m_query, CarriedLiteralType(is_auto, pairs, id), pairs[id]),
                         m_query.inverted)

\* An inverted filter on a var-string column whose resolved node carries an
\* encoded text: Prune.
C6_Witness ==
    /\ LogEventReturned /\ m_query.type = "Filter" /\ m_query.inverted
    /\ FirstCarried(m_query.col, unit.pairs.user) # 0
    /\ unit.pairs.user[FirstCarried(m_query.col, unit.pairs.user)].t = "Enc"
    /\ evaluated_value = "Prune"

\* ---------------------------------------------------------------------- C7
\* Whether a key path matches a token sequence, a wildcard token standing for
\* one segment or for none.
RECURSIVE MatchesTokens(_, _)
MatchesTokens(path, tokens) ==
    IF tokens = <<>> THEN path = <<>>
    ELSE IF Head(tokens) = "*"
    THEN \/ MatchesTokens(path, Tail(tokens))
         \/ path # <<>> /\ MatchesTokens(Tail(path), Tail(tokens))
    ELSE /\ path # <<>>
         /\ Head(path) = Head(tokens)
         /\ MatchesTokens(Tail(path), Tail(tokens))

\* The nodes of a column's namespace whose key path matches the column's
\* tokens and whose type can hold one of the column's literal types.
MatchingNodes(col) ==
    LET tree == SchemaTreeOf(is_autogen_namespace(col))
    IN  {id \in NodeIds(tree) :
            /\ MatchesTokens(KeyPath(tree, id), get_descriptor_list(col))
            /\ matches_any(col, node_to_literal_types(get_node(tree, id).type))}

\* C7: for every column of the query and every inserted node of its
\* namespace whose key path matches the column's tokens and whose type
\* intersects the column's types, the column's final resolutions hold the
\* node's id exactly once.
C7_ResolvedExactlyOnce ==
    m_query.type # "Null" =>
        \A col \in ColumnsOf(m_query) :
            ~is_pure_wildcard(col) =>
                \A id \in MatchingNodes(col) : Occurrences(ResolutionsOf(col), id) = 1

\* ---------------------------------------------------------------------- C8
\* The columns of the query with the tokens a.*.b.
ColumnsAWB == {col \in ColumnsOf(m_query) : get_descriptor_list(col) = <<"a", "*", "b">>}

\* The nodes of a column's namespace at a path a.b or a.x.b, of a type that
\* can hold one of the column's literal types.
ZeroOrOneSegmentNodes(col) ==
    LET tree == SchemaTreeOf(is_autogen_namespace(col))
    IN  {id \in NodeIds(tree) :
            /\ Len(KeyPath(tree, id)) \in {2, 3}
            /\ Head(KeyPath(tree, id)) = "a"
            /\ KeyPath(tree, id)[Len(KeyPath(tree, id))] = "b"
            /\ matches_any(col, node_to_literal_types(get_node(tree, id).type))}

SeveralSegmentNodes(col) ==
    LET tree == SchemaTreeOf(is_autogen_namespace(col))
    IN  {id \in NodeIds(tree) :
            /\ Len(KeyPath(tree, id)) >= 4
            /\ Head(KeyPath(tree, id)) = "a"
            /\ KeyPath(tree, id)[Len(KeyPath(tree, id))] = "b"
            /\ matches_any(col, node_to_literal_types(get_node(tree, id).type))}

\* C9 as stated: for a column a.*.b, a node at a.x.y.b is never among the
\* column's final resolutions.
C9_WildcardOneSegmentOnly ==
    m_query.type = "Filter" =>
        \A col \in ColumnsAWB :
            \A id \in SeveralSegmentNodes(col) : Occurrences(ResolutionsOf(col), id) = 0

\* C9, amended: a wildcard token between two keys matches any number of path
\* segments: for a column a.*.b, every node at a path a.x.y.b (two or more
\* segments between a and b) of a compatible type is among the column's final
\* resolutions, once.
C9_WildcardSeveralSegments ==
    m_query.type = "Filter" =>
        \A col \in ColumnsAWB :
            \A id \in SeveralSegmentNodes(col) : Occurrences(ResolutionsOf(col), id) = 1

C9_Witness ==
    /\ m_query.type = "Filter"
    /\ \E col \in ColumnsAWB :
           \E id \in SeveralSegmentNodes(col) :
               /\ InsertionReturned /\ ~unit.is_auto /\ InsertedNodeId = id
               /\ Occurrences(ResolutionsOf(col), id) = 1

\* --------------------------------------------------------------------- C10
ProjectedColumns ==
    {m_projected_column_to_original_key[k] :
        k \in 1..Len(m_projected_column_to_original_key)}

\* The nodes of a projected column's namespace whose key path is the column's
\* tokens.
ProjectedNodes(col) ==
    LET tree == SchemaTreeOf(is_autogen_namespace(col))
    IN  {id \in NodeIds(tree) : KeyPath(tree, id) = get_descriptor_list(col)}

\* C10: for each projected column and each inserted node of its namespace
\* whose key path is the column's tokens, handle_projection_resolution was
\* called exactly once with the namespace, the node's id and the column's
\* original text, in the call that inserted the node; no projected column has
\* final resolutions.
C10_ProjectionReportedOnce ==
    \A col \in ProjectedColumns :
        /\ col \notin DOMAIN m_resolutions
        /\ \A id \in ProjectedNodes(col) :
               LET call == ProjectionCall(is_autogen_namespace(col), id, OriginalKey(col))
               IN  /\ Occurrences(projection_resolutions, call) = 1
                   /\ (/\ InsertionReturned
                       /\ unit.is_auto = is_autogen_namespace(col)
                       /\ InsertedNodeId = id)
                          => Occurrences(calls, call) = 1
        /\ \A k \in 1..Len(calls) :
               (calls[k].cb = "handle_projection_resolution" /\ calls[k].key = OriginalKey(col))
                   => /\ InsertionReturned
                      /\ calls[k].node_id = InsertedNodeId
                      /\ calls[k].node_id \in ProjectedNodes(col)

\* The insertion of a.b in a deserializer that projects a.b and a, after a
\* was reported.
C10_Witness ==
    /\ InsertionReturned
    /\ Len(projection_resolutions) = 2
    /\ \E col \in ProjectedColumns :
           /\ Len(get_descriptor_list(col)) = 2
           /\ InsertedNodeId \in ProjectedNodes(col)
           /\ calls[1] = ProjectionCall(FALSE, InsertedNodeId, OriginalKey(col))

\* --------------------------------------------------------------------- C11
\* The schema trees and the resolution maps.
TreesAndResolutions ==
    <<m_auto_gen_keys_schema_tree, m_user_gen_keys_schema_tree,
      m_partial_resolutions, m_resolutions>>

\* The call in progress inserts a node whose locator the tree of its
\* namespace holds already.
DuplicateInsertionStep ==
    /\ caller = "ready"
    /\ unit'.type = "SchemaTreeNodeInsertion"
    /\ ret' # "decoding_error"
    /\ \E k \in 2..Len(SchemaTreeOf(unit'.is_auto)) :
           SchemaTreeOf(unit'.is_auto)[k] = unit'.locator

\* C11: an insertion whose locator is already in the tree of its namespace
\* returns protocol_error, leaves the trees and the partial and final
\* resolutions as they were and makes no handler callback.
C11_DuplicateInsertion ==
    [][DuplicateInsertionStep =>
          /\ ret' = "protocol_error"
          /\ calls' = <<>>
          /\ projection_resolutions' = projection_resolutions
          /\ TreesAndResolutions' = TreesAndResolutions]_vars

\* A duplicate of a node under a, in a deserializer that projects a.b.
C11_Witness ==
    /\ caller = "returned"
    /\ ret = "protocol_error"
    /\ unit.locator.parent_id # cRootId
    /\ Len(projection_resolutions) > 0

\* --------------------------------------------------------------------- C12
\* The values deserialize_next_ir_unit returns for a unit it processed.
UnitTypes == {"LogEvent", "SchemaTreeNodeInsertion", "UtcOffsetChange", "EndOfStream"}

\* C12: a call that returns an error leaves both schema trees, the partial and
\* final resolutions, the UTC offset and m_is_complete as they were before the
\* call.
C12_StateUnchangedOnError ==
    [][(caller = "ready" /\ ret' \notin UnitTypes) => members' = members]_vars

\* --------------------------------------------------------------------- C13
\* The pairs of a record, of both namespaces: <<is_auto, node id>>.
AllCarried(node_id_value_pairs) ==
    {<<is_auto, id>> : is_auto \in {TRUE}, id \in DOMAIN node_id_value_pairs.auto}
        \cup {<<is_auto, id>> : is_auto \in {FALSE}, id \in DOMAIN node_id_value_pairs.user}

\* The pairs whose literal type is one of the column's types.
TypeMatched(col, node_id_value_pairs) ==
    {c \in AllCarried(node_id_value_pairs) :
        CarriedLiteralType(c[1], PairsOf(node_id_value_pairs, c[1]), c[2])
            \in ColumnTable[col].flags}

\* The pairs among them that satisfy the filter.
Satisfying(expr, node_id_value_pairs) ==
    {c \in TypeMatched(expr.col, node_id_value_pairs) :
        evaluate_filter_value(
            expr,
            CarriedLiteralType(c[1], PairsOf(node_id_value_pairs, c[1]), c[2]),
            PairsOf(node_id_value_pairs, c[1])[c[2]]) = "True"}

\* C13: a filter on a pure-wildcard column looks at the pairs of both
\* namespaces, whatever the column's namespace and the resolution maps: it is
\* True if a pair of a matching literal type satisfies the filter, False if
\* pairs match the type and none satisfies it, Prune if no pair matches the
\* type (True and False swapped when the filter is inverted).
C13_PureWildcardFilter ==
    (LogEventReturned /\ m_query.type = "Filter" /\ is_pure_wildcard(m_query.col)) =>
        /\ m_resolutions = EmptyMap
        /\ evaluated_value =
               SwapIfInverted(
                   IF Satisfying(m_query, unit.pairs) # {} THEN "True"
                   ELSE IF TypeMatched(m_query.col, unit.pairs) # {} THEN "False"
                   ELSE "Prune",
                   m_query.inverted)

\* A user-namespace pure wildcard satisfied by an auto-generated pair alone.
C13_Witness ==
    /\ LogEventReturned /\ m_query.type = "Filter" /\ is_pure_wildcard(m_query.col)
    /\ ~is_autogen_namespace(m_query.col)
    /\ DOMAIN unit.pairs.user # {}
    /\ Satisfying(m_query, unit.pairs) # {}
    /\ \A c \in Satisfying(m_query, unit.pairs) : c[1]
    /\ evaluated_value = "True"

\* --------------------------------------------------------------------- C14
\* The filters of an expression.
RECURSIVE FiltersOf(_)
FiltersOf(expr) ==
    IF expr.type \in {"And", "Or"}
    THEN UNION {FiltersOf(expr.ops[k]) : k \in 1..Len(expr.ops)}
    ELSE IF expr.type = "Filter" THEN {expr} ELSE {}

\* Whether a key path matches a token sequence, a wildcard token standing for
\* any number of segments.
RECURSIVE MatchesTokensAnyDepth(_, _)
MatchesTokensAnyDepth(path, tokens) ==
    IF tokens = <<>> THEN path = <<>>
    ELSE IF Head(tokens) = "*"
    THEN \/ MatchesTokensAnyDepth(path, Tail(tokens))
         \/ path # <<>> /\ MatchesTokensAnyDepth(Tail(path), tokens)
    ELSE /\ path # <<>>
         /\ Head(path) = Head(tokens)
         /\ MatchesTokensAnyDepth(Tail(path), Tail(tokens))

\* C14: when a record evaluates to True, every filter of the query on a column
\* that is not a pure wildcard and that is True on the record has a final
\* resolution that is a key of the record's pairs of the column's namespace
\* and is a node of that namespace's tree whose key path matches the column.
C14_ResolutionSoundness ==
    (LogEventReturned /\ m_query.type # "Null" /\ evaluated_value = "True") =>
        \A filter \in FiltersOf(m_query) :
            (/\ ~is_pure_wildcard(filter.col)
             /\ evaluate_recursive(filter, unit.pairs) = "True")
                => LET is_auto == is_autogen_namespace(filter.col)
                       tree == SchemaTreeOf(is_auto)
                       res == ResolutionsOf(filter.col)
                   IN  \E k \in 1..Len(res) :
                           /\ res[k] \in DOMAIN PairsOf(unit.pairs, is_auto)
                           /\ res[k] \in NodeIds(tree)
                           /\ MatchesTokensAnyDepth(KeyPath(tree, res[k]),
                                                    get_descriptor_list(filter.col))

\* A True And of two wildcard columns, both resolved to the node the record
\* carries.
C14_Witness ==
    /\ LogEventReturned /\ m_query.type = "And" /\ evaluated_value = "True"
    /\ \A filter \in FiltersOf(m_query) :
           /\ evaluate_recursive(filter, unit.pairs) = "True"
           /\ \E k \in 1..Len(ResolutionsOf(filter.col)) :
                  ResolutionsOf(filter.col)[k] \in DOMAIN unit.pairs.user

\* ------------------------------------------------------------------- C15
PreprocessCalls == {"preprocess_query", "core_preprocess_query"}

\* What the passes, run in order and cut short by an EmptyExpr, give.
PassesInOrder(expr) ==
    LET standardized == OrOfAndForm_run(expr)
        narrowed == NarrowTypes_run(standardized)
    IN  IF expr = NullExpr THEN [expr |-> expr, ran |-> <<>>]
        ELSE IF standardized = EmptyExpr
        THEN [expr |-> EmptyExpr, ran |-> <<"OrOfAndForm">>]
        ELSE IF narrowed = EmptyExpr
        THEN [expr |-> EmptyExpr, ran |-> <<"OrOfAndForm", "NarrowTypes">>]
        ELSE [expr |-> ConvertToExists_run(narrowed),
              ran |-> <<"OrOfAndForm", "NarrowTypes", "ConvertToExists">>]

\* C15: preprocess_query runs OrOfAndForm, NarrowTypes, ConvertToExists in
\* this order; a pass that returns an EmptyExpr ends the run with the
\* EmptyExpr, otherwise all three passes are applied; a null query is returned
\* unchanged.
C15_PassesInOrder ==
    fn_call.fn \in PreprocessCalls => fn_call.result = PassesInOrder(fn_call.expr)

\* ------------------------------------------------------------------- C16
\* C16: preprocessing the query preprocess_query returned returns that query
\* again.
C16_PreprocessIdempotent ==
    fn_call.fn = "preprocess_query"
        => preprocess_query(fn_call.result.expr).expr = fn_call.result.expr

\* A query that all three passes rewrote: an inverted Or became an And of
\* inverted filters, a column's types were narrowed and a wildcard filter
\* became an existence test.
C16_Witness ==
    /\ fn_call.fn = "preprocess_query"
    /\ Len(fn_call.result.ran) = 3
    /\ fn_call.expr.type = "Or" /\ fn_call.expr.inverted
    /\ fn_call.result.expr.type = "And"
    /\ \E k \in 1..Len(fn_call.result.expr.ops) :
           fn_call.result.expr.ops[k].flags # cAllTypes
    /\ \E k \in 1..Len(fn_call.result.expr.ops) :
           fn_call.result.expr.ops[k].op = "EXISTS"

\* ------------------------------------------------------------------- C17
\* The callbacks of the last call that returned a code other than success.
FailedCallbacks ==
    {k \in DOMAIN handler_returned : handler_returned[k] # "IRErrorCode_Success"}

\* C17: when a handler callback returned a code other than success,
\* deserialize_next_ir_unit returned the error that carries this code, not
\* the unit type.
C17_HandlerErrorPropagated ==
    \A k \in FailedCallbacks :
        /\ ret = "HandlerError(" \o handler_returned[k] \o ")"
        /\ ret \notin UnitTypes

\* handle_projection_resolution failed: handle_schema_tree_node_insertion was
\* not called.
C17_Witness ==
    /\ caller = "returned"
    /\ FailedCallbacks = {1}
    /\ calls = <<ProjectionCall(FALSE, 2, "a.b")>>

\* ------------------------------------------------------------------- C18
\* A call that decoded a UtcOffsetChange unit.
UtcOffsetChangeStep ==
    /\ caller = "ready"
    /\ unit'.type = "UtcOffsetChange"
    /\ ret' # "decoding_error"

\* C18: the stored offset starts at 0; for a UtcOffsetChange unit
\* handle_utc_offset_change is called once, with the offset stored before the
\* unit and the decoded offset; the decoded offset is stored when the handler
\* returned success and the stored offset stays when it failed; nothing else
\* changes the stored offset.
C18_UtcOffsetChange ==
    /\ m_utc_offset = 0
    /\ [][/\ UtcOffsetChangeStep =>
               /\ calls' = <<[cb |-> "handle_utc_offset_change", old |-> m_utc_offset,
                              new |-> unit'.utc_offset]>>
               /\ Len(handler_returned') = 1
               /\ m_utc_offset' = IF handler_returned'[1] = "IRErrorCode_Success"
                                  THEN unit'.utc_offset
                                  ELSE m_utc_offset
          /\ m_utc_offset' # m_utc_offset => UtcOffsetChangeStep]_vars

\* The handler failed on a change from offset 1, stored by an earlier unit,
\* to offset 0: offset 1 is still stored.
C18_Witness ==
    /\ caller = "returned"
    /\ unit.type = "UtcOffsetChange"
    /\ calls = <<[cb |-> "handle_utc_offset_change", old |-> 1, new |-> 0]>>
    /\ FailedCallbacks = {1}
    /\ m_utc_offset = 1

\* ------------------------------------------------------------------- C19
\* C19: a call that reads a tag of no unit type returns
\* protocol_not_supported, makes no handler callback and changes no member
\* of the deserializer.
C19_UnknownTag ==
    [][(caller = "ready" /\ unit'.type = "Unknown") =>
           /\ ret' = "protocol_not_supported"
           /\ calls' = <<>>
           /\ members' = members
           /\ projection_resolutions' = projection_resolutions]_vars

\* The tag was read by a deserializer that holds nodes and a changed offset.
C19_Witness ==
    /\ caller = "returned"
    /\ unit.type = "Unknown"
    /\ tag_read
    /\ InsertedNodes > 0
    /\ m_utc_offset = 1

\* ------------------------------------------------------------------- C20
\* The tokens of a path that can be tokenized.
TokensOf(path) == tokenize_column_descriptor(path).tokens

\* A path create must reject: it has no tokens, cannot be tokenized, or has a
\* wildcard token.
RejectedPath(path) ==
    \/ path = <<>>
    \/ ~tokenize_column_descriptor(path).ok
    \/ \E k \in 1..Len(TokensOf(path)) : TokensOf(path)[k] = <<"*">>

\* A projection create must reject: it names a path twice or has a rejected
\* path.
RejectedProjection(projection) ==
    \/ \E i, j \in 1..Len(projection) : i # j /\ projection[i] = projection[j]
    \/ \E i \in 1..Len(projection) : RejectedPath(projection[i])

\* C20 as stated: for a projection that names a path twice or has a path
\* with no tokens, a path that cannot be tokenized or a path with a wildcard
\* token, create returns invalid_argument and constructs no deserializer.
C20_InvalidProjection ==
    (fn_call.fn = "create" /\ RejectedProjection(fn_call.projection))
        => (fn_call.result.ret = "invalid_argument" /\ ~fn_call.result.constructed)

\* C20, amended: the same when create accepted the head of the stream; when it
\* did not, create still constructs no deserializer.
C20_InvalidProjectionAfterPreamble ==
    (fn_call.fn = "create" /\ RejectedProjection(fn_call.projection))
        => /\ ~fn_call.result.constructed
           /\ fn_call.head = "ok" => fn_call.result.ret = "invalid_argument"

\* create accepted the head of the stream and the first path, and rejected
\* the second path for its wildcard token.
C20_Witness ==
    /\ fn_call.fn = "create"
    /\ fn_call.head = "ok"
    /\ fn_call.projection = << <<"a">>, <<"a", ".", "*">> >>
    /\ fn_call.result.ret = "invalid_argument"

\* ------------------------------------------------------------------- C21
\* C21: create returns protocol_error for metadata that is not parseable JSON
\* or has no string-valued version, protocol_not_supported for a metadata
\* type other than JSON, a version that is not supported or user-defined
\* metadata that is not an object, and the truncation error for a truncated
\* preamble; it constructs no deserializer then.
C21_PreambleClassification ==
    fn_call.fn = "create" =>
        /\ fn_call.head \in {"metadata_json_discarded", "version_not_a_string"}
               => fn_call.result.ret = "protocol_error"
        /\ fn_call.head \in {"metadata_type_not_json", "version_not_supported",
                             "user_defined_metadata_not_object"}
               => fn_call.result.ret = "protocol_not_supported"
        /\ fn_call.head \in {"encoding_type_error", "preamble_error"}
               => fn_call.result.ret = "result_out_of_range"
        /\ fn_call.head # "ok" => ~fn_call.result.constructed

\* The version is not supported and the projection is one create would
\* accept.
C21_Witness ==
    /\ fn_call.fn = "create"
    /\ fn_call.head = "version_not_supported"
    /\ fn_call.projection = << <<"a">> >>
    /\ fn_call.result.ret = "protocol_not_supported"

\* ------------------------------------------------------------------- C22
\* A call that decoded a SchemaTreeNodeInsertion unit.
InsertionStep ==
    /\ caller = "ready"
    /\ unit'.type = "SchemaTreeNodeInsertion"
    /\ ret' # "decoding_error"

SchemaTrees == <<m_auto_gen_keys_schema_tree, m_user_gen_keys_schema_tree>>

\* C22: both trees start with the root alone.  An insertion whose locator the
\* tree of its namespace holds leaves both trees as they are; any other
\* insertion adds its node to the tree of its namespace under the id that
\* follows the ids given before (root id + 1 for the first), which is the id
\* the resolution step reports, and leaves the ids of the other nodes and the
\* other tree as they are.  Nothing else changes a tree.
C22_IdsGapFree ==
    /\ SchemaTrees = <<(<<RootNode>>), (<<RootNode>>)>>
    /\ [][/\ InsertionStep =>
               LET tree == SchemaTrees[IF unit'.is_auto THEN 1 ELSE 2]
                   other == IF unit'.is_auto THEN 2 ELSE 1
                   inserted == cRootId + (Len(tree) - 1) + 1
               IN  IF \E k \in 2..Len(tree) : tree[k] = unit'.locator
                   THEN SchemaTrees' = SchemaTrees
                   ELSE /\ SchemaTrees'[3 - other] = tree \o <<unit'.locator>>
                        /\ SchemaTrees'[other] = SchemaTrees[other]
                        /\ SchemaTrees'[3 - other][inserted + 1] = unit'.locator
                        /\ \A k \in 1..Len(calls') :
                               calls'[k].cb = "handle_projection_resolution"
                                   => calls'[k].node_id = inserted
          /\ SchemaTrees' # SchemaTrees => InsertionStep]_vars

\* The second node of the user-generated tree was inserted and reported as
\* node 2 while the auto-generated tree has a node 1 of its own.
C22_Witness ==
    /\ caller = "returned"
    /\ ret = "SchemaTreeNodeInsertion"
    /\ Len(m_auto_gen_keys_schema_tree) = 2
    /\ Len(m_user_gen_keys_schema_tree) = 3
    /\ calls[1] = ProjectionCall(FALSE, 2, "a.b")

\* ------------------------------------------------------------------- C23
EvaluateCalls == {"evaluate", "core_evaluate"}

\* C23: evaluate returns True or False; True for an EXISTS filter and False
\* for a NEXISTS filter whatever the value; False for every other operator
\* when the literal type is ArrayT, NullT, EpochDateT or UnknownT.
C23_EvaluateTrueOrFalse ==
    fn_call.fn \in EvaluateCalls =>
        /\ fn_call.result \in {"True", "False"}
        /\ fn_call.op = "EXISTS" => fn_call.result = "True"
        /\ fn_call.op = "NEXISTS" => fn_call.result = "False"
        /\ (/\ fn_call.op \notin {"EXISTS", "NEXISTS"}
            /\ fn_call.literal_type \in {"ArrayT", "NullT", "EpochDateT", "UnknownT"})
               => fn_call.result = "False"

\* ------------------------------------------------------------------- C24
\* Whether the operand can be read as the type of the value.
ReadableAs(operand, literal_type) ==
    IF literal_type = "BooleanT" THEN operand.lt = "Boolean" ELSE operand.lt = "Integral"

\* The comparison of a value with an operand under an operator.
Compares(op, left, right) ==
    CASE op = "EQ"  -> left = right
      [] op = "NEQ" -> left # right
      [] op = "LT"  -> left < right
      [] op = "GT"  -> left > right
      [] op = "LTE" -> left <= right
      [] op = "GTE" -> left >= right

\* C24: for an integer, float or boolean value and an operator other than
\* EXISTS and NEXISTS, evaluate returns False when the operand cannot be read
\* as the value's type, and for a boolean value under an operator other than
\* EQ and NEQ; otherwise it returns the comparison of the value with the
\* operand.
C24_DirectComparison ==
    (/\ fn_call.fn = "evaluate"
     /\ fn_call.literal_type \in {"IntegerT", "FloatT", "BooleanT"}
     /\ fn_call.op \notin {"EXISTS", "NEXISTS"})
        => fn_call.result =
               IF ~ReadableAs(fn_call.operand, fn_call.literal_type) THEN "False"
               ELSE IF fn_call.literal_type = "BooleanT"
               THEN IF /\ fn_call.op \in {"EQ", "NEQ"}
                       /\ Compares(fn_call.op, fn_call.value.b, fn_call.operand.b)
                    THEN "True" ELSE "False"
               ELSE IF Compares(fn_call.op, fn_call.value.i, fn_call.operand.i)
               THEN "True" ELSE "False"

\* An integer value compared for inequality with a string operand.
C24_Witness ==
    /\ fn_call.fn = "evaluate"
    /\ fn_call.literal_type = "IntegerT"
    /\ fn_call.op = "NEQ"
    /\ fn_call.operand = StrLiteral(<<"h">>)
    /\ fn_call.result = "False"

\* ------------------------------------------------------------------- C25
\* The text of a string value.
TextOf(value) == IF value.t = "Str" THEN value.s ELSE decode_and_unparse(value)

\* C25: for a VarString or ClpString value and a string operand, EQ is True
\* exactly when the value matches the operand as a wildcard pattern, letter
\* case counting when the query is case sensitive, and NEQ is True exactly
\* when it does not match.
C25_CaseSensitivityFollowsFlag ==
    (/\ fn_call.fn = "evaluate"
     /\ fn_call.literal_type \in {"VarStringT", "ClpStringT"}
     /\ fn_call.operand.lt = "String"
     /\ fn_call.op \in {"EQ", "NEQ"})
        => LET matched == wildcard_match_unsafe(TextOf(fn_call.value), fn_call.operand.s,
                                                fn_call.case_sensitive_match)
           IN  fn_call.result = IF matched = (fn_call.op = "EQ") THEN "True" ELSE "False"

\* ------------------------------------------------------------------- C26
\* The store and upload steps of a run succeeded and no exception was thrown.
IngestionSucceeded == fn_call.thrown = "none" /\ fn_call.upload_ok

\* C26: when every input path was compressed and the store and upload steps
\* succeeded the compress task returns every input path; it returns the empty
\* list only when no path was compressed or the store or upload step failed
\* or an exception was thrown.
C26_CompressReturnsIngested ==
    fn_call.fn = "compress" =>
        /\ (IngestionSucceeded /\ \A k \in DOMAIN fn_call.compressed : fn_call.compressed[k])
               => fn_call.result = fn_call.s3_paths
        /\ fn_call.result = <<>>
               => \/ ~IngestionSucceeded
                  \/ \A k \in DOMAIN fn_call.compressed : ~fn_call.compressed[k]

\* ------------------------------------------------------------------- C27
\* C27: for an iterator over an array of n records on which next() was called
\* k times, done() is true exactly when k = n, and while k < n get() exposes
\* the record at position k of the array (the first record before any call).
C27_IteratorVisitsEveryRecord ==
    record_iterator # NoIterator =>
        LET n == Len(record_iterator.m_jarray)
            k == record_iterator.m_it
        IN  /\ iterator_done <=> k = n
            /\ k < n => iterator_get = record_iterator.m_jarray[k + 1]

\* ------------------------------------------------------------------- C28
\* The code point a sequence of generate_utf8_byte_sequence carries: the bits
\* of the code point that fit in the lead byte and the continuation bytes.
EncodedCodePoint(code_point, num_continuation_bytes) ==
    code_point % (lead_byte_code_point_values(num_continuation_bytes)
                  * (64 ^ num_continuation_bytes))

\* The number of bytes of the shortest encoding of a code point, 0 when the
\* code point is above U+10FFFF.
ShortestLength(code_point) ==
    CASE code_point <= 127 -> 1
      [] code_point <= 2047 -> 2
      [] code_point <= 65535 -> 3
      [] code_point <= 1114111 -> 4
      [] OTHER -> 0

Utf8Calls == fn_call.fn = "is_utf8_encoded"

LogEventStep ==
    /\ caller = "ready"
    /\ unit'.type = "LogEvent"
    /\ ret' # "decoding_error"

\* C29: an accepted SchemaTreeNodeInsertion unit for node n leaves n in the
\* tree of its namespace and the resolutions as the resolution step for n
\* leaves them; its callbacks are the handle_projection_resolution calls of
\* that step, each for n, followed by one handle_schema_tree_node_insertion
\* whose tree holds n under its id.  A log event is evaluated against the
\* resolutions as the insertions before it left them, and leaves them alone.
C29_InsertionThenResolutionThenHandler ==
    [][/\ (InsertionStep /\ ret' = "SchemaTreeNodeInsertion") =>
              LET is_auto == unit'.is_auto
                  n == next_node_id(SchemaTreeOf(is_auto))
                  st == handle_resolution_update_step(is_auto, unit'.locator, n, 0)
                  tree == SchemaTrees'[IF is_auto THEN 1 ELSE 2]
                  last == calls'[Len(calls')]
              IN  /\ Len(tree) = n + 1 /\ get_node(tree, n) = unit'.locator
                  /\ m_partial_resolutions' = st.pr
                  /\ m_resolutions' = st.res
                  /\ calls' = Append(st.calls, last)
                  /\ \A k \in 1..Len(st.calls) :
                        /\ calls'[k].cb = "handle_projection_resolution"
                        /\ calls'[k].node_id = n
                  /\ last.cb = "handle_schema_tree_node_insertion"
                  /\ last.schema_tree = tree
                  /\ has_node(last.schema_tree, unit'.locator)
       /\ LogEventStep =>
              /\ evaluated_value' = evaluate_query(unit'.pairs)
              /\ m_resolutions' = m_resolutions
              /\ m_partial_resolutions' = m_partial_resolutions]_vars

\* An accepted insertion reported the node for a projected column and then
\* handed the tree with the node to handle_schema_tree_node_insertion.
C29_Witness ==
    /\ InsertionReturned /\ ret = "SchemaTreeNodeInsertion"
    /\ Len(calls) = 2
    /\ calls[1].cb = "handle_projection_resolution"
    /\ calls[1].node_id = InsertedNodeId
    /\ calls[2].cb = "handle_schema_tree_node_insertion"
    /\ get_node(calls[2].schema_tree, InsertedNodeId) = unit.locator

\* ------------------------------------------------------------------- C30
\* How many filters of an expression are on the column.
RECURSIVE FiltersOn(_, _)
FiltersOn(expr, col) ==
    IF expr.type \in {"And", "Or"}
    THEN IF expr.ops = <<>> THEN 0
         ELSE FiltersOn(Head(expr.ops), col)
              + FiltersOn([expr EXCEPT !.ops = Tail(@)], col)
    ELSE IF expr.type = "Filter" /\ expr.col = col THEN 1 ELSE 0

\* How often the entry is in the list of the key, 0 when the map has no list.
EntriesAt(pr, key, entry) ==
    IF key \in DOMAIN pr THEN Occurrences(pr[key], entry) ELSE 0

Constructed == fn_call.fn = "Deserializer"

\* C30: after construction the partial resolutions have lists at root keys
\* only; the list of a column's namespace holds the entry with the cursor on
\* the first token once for each time the column is projected and once for
\* each filter on it when it is not a pure wildcard, and the entry with the
\* cursor on the second token once for each filter on it when it is not a
\* pure wildcard and its first token is a wildcard; every cursor is on a token
\* of its column; there are no other entries and no final resolutions.
C30_InitialPartialResolutions ==
    Constructed =>
        LET pr == fn_call.m_partial_resolutions
            query == fn_call.m_query
            projected == fn_call.m_projected_column_to_original_key
            in_query(col) == IF is_pure_wildcard(col) THEN 0 ELSE FiltersOn(query, col)
        IN  /\ \A key \in DOMAIN pr : key[1] = cRootId
            /\ \A key \in DOMAIN pr : \A k \in 1..Len(pr[key]) :
                  /\ is_autogen_namespace(pr[key][k][1]) = key[2]
                  /\ pr[key][k][2] \in 1..Len(get_descriptor_list(pr[key][k][1]))
            /\ \A col \in DOMAIN ColumnTable :
                  LET key == <<cRootId, is_autogen_namespace(col)>>
                  IN  /\ EntriesAt(pr, key, <<col, 1>>)
                            = Occurrences(projected, col) + in_query(col)
                      /\ EntriesAt(pr, key, <<col, 2>>)
                            = IF wildcard(col, 1) THEN in_query(col) ELSE 0
                      /\ \A cursor \in 3..(MaxPathLen + 2) :
                            EntriesAt(pr, key, <<col, cursor>>) = 0
            /\ fn_call.m_resolutions = EmptyMap

\* ------------------------------------------------------------------- C31
\* Whether s is the beginning of t.
IsPrefix(s, t) == Len(s) <= Len(t) /\ SubSeq(t, 1, Len(s)) = s

\* Every list of the map before is the beginning of the list the map after
\* has at the same key.
OnlyAppended(before, after) ==
    \A key \in DOMAIN before :
        /\ key \in DOMAIN after
        /\ IsPrefix(before[key], after[key])

\* C31: no step removes or reorders an entry of a list of the partial
\* resolutions or of the final resolutions: each list a step finds is the
\* beginning of the list it leaves, so no list gets shorter.
C31_ResolutionsAppendOnly ==
    [][/\ OnlyAppended(m_partial_resolutions, m_partial_resolutions')
       /\ OnlyAppended(m_resolutions, m_resolutions')]_vars

\* A column has two final resolutions, the second one appended by the last
\* insertion, and partial resolutions were added below the root.
C31_Witness ==
    /\ InsertionReturned
    /\ \E col \in DOMAIN m_resolutions :
          /\ Len(m_resolutions[col]) >= 2
          /\ m_resolutions[col][Len(m_resolutions[col])] = InsertedNodeId
    /\ \E key \in DOMAIN m_partial_resolutions : key[1] # cRootId

\* ------------------------------------------------------------------- C32
\* C32: no list of the partial resolutions holds the same (column, cursor)
\* pair twice.
C32_NoDuplicatePartialResolution ==
    \A key \in DOMAIN m_partial_resolutions :
        \A j, k \in 1..Len(m_partial_resolutions[key]) :
            m_partial_resolutions[key][j] = m_partial_resolutions[key][k] => j = k

\* ------------------------------------------------------------------- C33
\* C33: an accepted or failed insertion of node n under parent p in namespace
\* ns changes the partial resolutions at key (n, ns) at most; when there is no
\* list at (p, ns) it leaves both maps as they are and makes no
\* handle_projection_resolution call; it never changes the final resolutions
\* of a column of the other namespace.
C33_ResolutionStepFrame ==
    [][(InsertionStep /\ ret' # "protocol_error") =>
          LET is_auto == unit'.is_auto
              n == next_node_id(SchemaTreeOf(is_auto))
              p == unit'.locator.parent_id
          IN  /\ \A key \in DOMAIN m_partial_resolutions' :
                    key # <<n, is_auto>> =>
                        /\ key \in DOMAIN m_partial_resolutions
                        /\ m_partial_resolutions'[key] = m_partial_resolutions[key]
              /\ DOMAIN m_partial_resolutions \subseteq DOMAIN m_partial_resolutions'
              /\ <<p, is_auto>> \notin DOMAIN m_partial_resolutions =>
                    /\ m_partial_resolutions' = m_partial_resolutions
                    /\ m_resolutions' = m_resolutions
                    /\ \A k \in 1..Len(calls') :
                          calls'[k].cb # "handle_projection_resolution"
              /\ \A col \in DOMAIN m_resolutions' :
                    is_autogen_namespace(col) # is_auto =>
                        /\ col \in DOMAIN m_resolutions
                        /\ m_resolutions'[col] = m_resolutions[col]]_vars

\* A node was inserted under a parent that has no partial resolutions while
\* a column of the other namespace has a final resolution.
C33_Witness ==
    /\ InsertionReturned
    /\ <<unit.locator.parent_id, unit.is_auto>> \notin DOMAIN m_partial_resolutions
    /\ \E col \in DOMAIN m_resolutions :
          is_autogen_namespace(col) # unit.is_auto /\ m_resolutions[col] # <<>>

\* ------------------------------------------------------------------- C34
ColumnDescriptorCalls == fn_call.fn = "ColumnDescriptor"

\* C34: the tokens of a column descriptor hold no wildcard next to a
\* wildcard, and the descriptor is a pure wildcard exactly when these tokens
\* are one wildcard token.
C34_PureWildcardAfterCollapse ==
    ColumnDescriptorCalls =>
        LET tokens == fn_call.result.tokens
        IN  /\ \A k \in 1..(Len(tokens) - 1) : ~(tokens[k] = "*" /\ tokens[k + 1] = "*")
            /\ fn_call.result.pure <=> (Len(tokens) = 1 /\ tokens[1] = "*")

\* ------------------------------------------------------------------- C35
\* The record with the pairs of a namespace cut down to one node id.
OnlyPair(node_id_value_pairs, is_auto, id) ==
    LET pairs == PairsOf(node_id_value_pairs, is_auto)
        one == [k \in {id} |-> pairs[k]]
    IN  IF is_auto THEN [node_id_value_pairs EXCEPT !.auto = one]
        ELSE [node_id_value_pairs EXCEPT !.user = one]

\* C35: when the record carries a final resolution of the column of a filter
\* that is not a pure wildcard, the filter's result is the one the record
\* gives with the first such node id alone in the column's namespace, and it
\* is Prune exactly when the literal type of the value at that id is not one
\* of the column's types.
C35_FirstResolutionDecides ==
    (LogEventReturned /\ m_query.type = "Filter" /\ ~is_pure_wildcard(m_query.col)) =>
        LET is_auto == is_autogen_namespace(m_query.col)
            pairs == PairsOf(unit.pairs, is_auto)
            id == FirstCarried(m_query.col, pairs)
        IN  id # 0 =>
                /\ evaluated_value = evaluate_query(OnlyPair(unit.pairs, is_auto, id))
                /\ evaluated_value \in {"True", "False", "Prune"}
                /\ evaluated_value = "Prune" <=>
                       CarriedLiteralType(is_auto, pairs, id)
                           \notin ColumnTable[m_query.col].flags

\* The record carries two final resolutions of the column; the value at the
\* first makes the filter False, the value at the second alone would make it
\* True.
C35_Witness ==
    /\ LogEventReturned /\ m_query.type = "Filter" /\ ~is_pure_wildcard(m_query.col)
    /\ ~is_autogen_namespace(m_query.col)
    /\ Len(ResolutionsOf(m_query.col)) >= 2
    /\ \A k \in 1..2 : ResolutionsOf(m_query.col)[k] \in DOMAIN unit.pairs.user
    /\ evaluated_value = "False"
    /\ evaluate_query(OnlyPair(unit.pairs, FALSE, ResolutionsOf(m_query.col)[2])) = "True"

\* ------------------------------------------------------------------- C36
NexistsQuery ==
    /\ m_query.type = "Filter" /\ m_query.op = "NEXISTS" /\ ~m_query.inverted
    /\ ~is_pure_wildcard(m_query.col)

\* C36 as stated: the filter is False when the record carries a final
\* resolution of the column and Prune when it carries none, and the log event
\* is not passed to the handler.
C36_NexistsFalseWhenResolved ==
    (LogEventReturned /\ NexistsQuery) =>
        LET pairs == PairsOf(unit.pairs, is_autogen_namespace(m_query.col))
        IN  /\ evaluated_value =
                   IF FirstCarried(m_query.col, pairs) = 0 THEN "Prune" ELSE "False"
            /\ calls = <<>>
            /\ ret = "no_message"

\* C36, amended: the filter is never True: it is False when the value at the
\* first final resolution of the column that the record carries has a literal
\* type of the column, and Prune when the record carries no final resolution
\* or that value's literal type is not one of the column's; the log event is
\* not passed to the handler.
C36_NexistsNeverTrue ==
    (LogEventReturned /\ NexistsQuery) =>
        LET is_auto == is_autogen_namespace(m_query.col)
            pairs == PairsOf(unit.pairs, is_auto)
            id == FirstCarried(m_query.col, pairs)
        IN  /\ evaluated_value =
                   IF id # 0 /\ CarriedLiteralType(is_auto, pairs, id)
                                    \in ColumnTable[m_query.col].flags
                   THEN "False" ELSE "Prune"
            /\ calls = <<>>
            /\ ret = "no_message"

\* A record that carries a resolved node with a value of the column's type:
\* the filter is False and the event is dropped.
C36_Witness ==
    /\ LogEventReturned /\ NexistsQuery
    /\ FirstCarried(m_query.col, unit.pairs.user) # 0
    /\ evaluated_value = "False"
    /\ calls = <<>>

C38_EmptyQueryDropsEveryEvent ==
    (LogEventReturned /\ m_query = EmptyExpr) =>
        /\ ret = "no_message"
        /\ ~HandlerCalled("handle_log_event")


\* ------------------------------------------------------------------- C39
\* The reader holds a well-formed stream and no call has returned an error.
WellFormedRun ==
    reader # AnyReader /\ reader.ends_with = "EndOfStream" /\ ~reader.failed

\* A call on a counted stream returns.
CallReturns == caller = "ready" /\ caller' = "returned" /\ reader # AnyReader

C39_OneUnitPerCall ==
    CallReturns =>
        /\ reader'.calls = reader.calls + 1
        /\ ret' \in UnitReturns => reader'.consumed = reader.consumed + 1

C39_CompletedAfterAllUnits ==
    WellFormedRun =>
        /\ reader.consumed = reader.calls
        /\ reader.calls <= reader.units + 1
        /\ is_stream_completed <=> reader.calls = reader.units + 1

\* C39: a call that returns a unit type or the filtered status takes exactly
\* one unit from the reader; on a well-formed stream of n units and the end
\* of the stream, as long as no call returns an error, the calls made are the
\* units taken, the stream is completed exactly when n + 1 calls were made,
\* and a caller that keeps calling gets there (or gets an error).
C39_StreamCompletesAfterNPlus1Calls ==
    /\ [][C39_OneUnitPerCall]_vars
    /\ []C39_CompletedAfterAllUnits
    /\ (reader # AnyReader /\ reader.ends_with = "EndOfStream") ~>
           (is_stream_completed \/ reader.failed)

\* A well-formed stream of MaxUnits units was read to its end without an
\* error, one of its log events filtered.
C39_Witness ==
    /\ WellFormedRun /\ reader.units = MaxUnits /\ is_stream_completed
    /\ reader.calls = MaxUnits + 1
    /\ ret = "EndOfStream"


\* ------------------------------------------------------------------- C40
\* C40: for a BufferedSocketWriter of non-zero capacity, as long as every
\* send has succeeded, the bytes sent to the socket followed by the bytes in
\* the buffer are the written data in order; the buffer never holds more
\* bytes than its capacity, and a successful flush leaves it empty.
C40_SentThenBufferedIsWritten ==
    buffered_writer # NoWriter =>
        /\ Len(buffered_writer.m_buffer) <= buffered_writer.capacity
        /\ ~buffered_writer.send_failed =>
               buffered_writer.socket \o buffered_writer.m_buffer = buffered_writer.written
        /\ (buffered_writer.last_call = "flush" /\ buffered_writer.returned) =>
               buffered_writer.m_buffer = <<>>

\* MaxWritten bytes were written without a failing send: the socket was sent
\* two full buffers and the buffer holds the rest, a full buffer again.
C40_Witness ==
    /\ buffered_writer # NoWriter
    /\ ~buffered_writer.send_failed
    /\ buffered_writer.capacity = MaxCapacity
    /\ buffered_writer.last_call = "write"
    /\ Len(buffered_writer.written) = MaxWritten
    /\ Len(buffered_writer.socket) = 2 * MaxCapacity
    /\ Len(buffered_writer.m_buffer) = MaxCapacity
    /\ buffered_writer.written = <<"x", "y", "y", "x", "x", "y">>

====
